---- MODULE Spec2Model ----
(***************************************************************************)
(* Worklog Manager: the work-session state machine (core/worklog_manager), *)
(* its durable store (data/database), the in-memory action history         *)
(* (core/action_history) and the time accounting engine                    *)
(* (core/time_calculator).                                                 *)
(*                                                                         *)
(* Time is counted in ticks; TicksPerSecond ticks make one second, so a    *)
(* timestamp can carry a fraction of a second as datetime.now() does.      *)
(* Optional values (None in the code) are <<>>, a present value v is <<v>>.*)
(* Only today's date is modelled, so the work_sessions table holds at most *)
(* one row (date is UNIQUE) and rows carry no date column; the created_at  *)
(* and updated_at columns, which no core code path reads, are left out.    *)
(***************************************************************************)
EXTENDS Integers, Sequences, FiniteSets, TLC

\* ---------------------------------------------------------------- bounds
\* Successful transitions (action_log rows) per run.
MaxTransitions == 4
\* Sessions ever created for today (resets + 1).
MaxSessions == 2
\* Latest clock reading, in seconds.
MaxClockSeconds == 68
\* Clock resolution of the model.
TicksPerSecond == 2
\* Action History on its own: record_action calls per run, and the small
\* max_history it is constructed with.
MaxRecorded == 6
SmallMaxHistory == 3
\* Short ledgers: record_action calls per run.
MaxLedgerRecorded == 3
\* Calls in a row: successful transitions per run.
MaxQuickTransitions == 7
\* Clock set back: successful transitions per run.
MaxSkewTransitions == 5
\* Timer threads: successful transitions per run, and threads ever started.
MaxTimerTransitions == 3
MaxThreads == 2
\* Time calculator specification: longest action log / break list drawn.
MaxLogLen == 3
MaxBreaksLen == 2

\* ------------------------------------------------------- program constants
SecondsPerMinute == 60
DefaultWorkNormMinutes == 450
DefaultMaxHistory == 100
RevokeWindow == 5
DefaultSummaryLimit == 10
MatchToleranceSeconds == 5

\* Clock advances between two readings of the clock (ticks): one tick (a
\* fraction of a second), and a minute and a tick (beyond the 5 s matching
\* tolerance, and enough for a whole minute).
Delta == {1, SecondsPerMinute * TicksPerSecond + 1}

MaxNow == MaxClockSeconds * TicksPerSecond

\* revoke_action reads the clock only to stamp revoke_timestamp; it reads it
\* at the tick of the latest reading.
RevokeDelta == {0}

\* ------------------------------------------------------------------ enums
NOT_STARTED == "not_started"
WORKING == "working"
ON_BREAK == "on_break"
DAY_ENDED == "day_ended"
WorklogState == {NOT_STARTED, WORKING, ON_BREAK, DAY_ENDED}

START_DAY == "start_day"
END_DAY == "end_day"
STOP == "stop"
CONTINUE == "continue"
REVOKE_START == "revoke_start"
REVOKE_END == "revoke_end"
REVOKE_STOP == "revoke_stop"
REVOKE_CONTINUE == "revoke_continue"
ActionType == {START_DAY, END_DAY, STOP, CONTINUE,
               REVOKE_START, REVOKE_END, REVOKE_STOP, REVOKE_CONTINUE}

LUNCH == "lunch"
COFFEE == "coffee"
GENERAL == "general"
BreakType == {LUNCH, COFFEE, GENERAL}
\* The action types the four transitions write to the action log.
LoggedActionTypes == {START_DAY, STOP, CONTINUE, END_DAY}

\* Break types the callers of the model pass to stop_work.
BreakTypesUsed == {COFFEE}

None == <<>>
Some(v) == <<v>>
Max(a, b) == IF a >= b THEN a ELSE b
Min(a, b) == IF a <= b THEN a ELSE b

\* Python's int(a / b) for b > 0: truncation toward zero.
TruncDiv(a, b) == IF a >= 0 THEN a \div b ELSE -((-a) \div b)

\* A difference of dt ticks rounded up to whole seconds.
SecondsRoundedUp(dt) == (dt + TicksPerSecond - 1) \div TicksPerSecond

\* int(timedelta.total_seconds()) of a difference of dt ticks.
WholeSeconds(dt) == TruncDiv(dt, TicksPerSecond)

\* ------------------------------------------------- core/time_calculator.py
RECURSIVE WorkScan(_, _, _, _)
WorkScan(acts, i, current_start, total_seconds) ==
    IF i > Len(acts) THEN total_seconds
    ELSE LET a == acts[i] IN
         IF a.action_type = START_DAY
           THEN WorkScan(acts, i + 1, Some(a.timestamp), total_seconds)
         ELSE IF a.action_type = STOP /\ current_start # None
           THEN WorkScan(acts, i + 1, None,
                         total_seconds + WholeSeconds(a.timestamp - current_start[1]))
         ELSE IF a.action_type = CONTINUE
           THEN WorkScan(acts, i + 1, Some(a.timestamp), total_seconds)
         ELSE IF a.action_type = END_DAY /\ current_start # None
           THEN WorkScan(acts, i + 1, None,
                         total_seconds + WholeSeconds(a.timestamp - current_start[1]))
         ELSE WorkScan(acts, i + 1, current_start, total_seconds)

\* The time from the first StartDay or Continue to the last Stop or EndDay.
work_time_first_start_to_last_stop(acts) ==
    LET starts == {i \in 1..Len(acts) : acts[i].action_type \in {START_DAY, CONTINUE}}
        stops == {i \in 1..Len(acts) : acts[i].action_type \in {STOP, END_DAY}}
        first == CHOOSE i \in starts : \A j \in starts : i <= j
        last == CHOOSE i \in stops : \A j \in stops : j <= i
    IN IF starts = {} \/ stops = {} \/ last < first THEN 0
       ELSE WholeSeconds(acts[last].timestamp - acts[first].timestamp)

calculate_work_time(acts) == WorkScan(acts, 1, None, 0)

RECURSIVE CurrentScan(_, _, _)
CurrentScan(acts, i, clock) ==
    IF i < 1 THEN 0
    ELSE IF acts[i].action_type \in {START_DAY, CONTINUE}
      THEN WholeSeconds(clock - acts[i].timestamp)
    ELSE IF acts[i].action_type \in {STOP, END_DAY}
      THEN 0
    ELSE CurrentScan(acts, i - 1, clock)

\* The time since the last StartDay or Continue, whatever was logged after it.
time_since_last_start(acts, clock) ==
    LET starts == {i \in 1..Len(acts) : acts[i].action_type \in {START_DAY, CONTINUE}}
    IN IF starts = {} THEN 0
       ELSE WholeSeconds(clock - acts[CHOOSE i \in starts : \A j \in starts : j <= i].timestamp)

\* The time since the last StartDay or Continue unless an EndDay follows it.
session_time_ended_by_end_day_only(acts, clock) ==
    LET rel == {i \in 1..Len(acts) : acts[i].action_type \in {START_DAY, CONTINUE, END_DAY}}
        last == CHOOSE i \in rel : \A j \in rel : j <= i
    IN IF rel = {} \/ acts[last].action_type = END_DAY THEN 0
       ELSE WholeSeconds(clock - acts[last].timestamp)

calculate_current_session_time(acts, clock) == CurrentScan(acts, Len(acts), clock)

RECURSIVE BreakScan(_, _, _)
BreakScan(breaks, i, total_seconds) ==
    IF i > Len(breaks) THEN total_seconds
    ELSE LET b == breaks[i] IN
         IF b.end_time # None
           THEN BreakScan(breaks, i + 1,
                          total_seconds + Max(0, WholeSeconds(b.end_time[1] - b.start_time)))
         ELSE IF b.duration_minutes # None
           THEN BreakScan(breaks, i + 1,
                          total_seconds + Max(0, b.duration_minutes[1] * SecondsPerMinute))
         ELSE BreakScan(breaks, i + 1, total_seconds)

\* The break time with the last break period left out.
break_time_without_last(breaks) ==
    IF breaks = <<>> THEN 0 ELSE BreakScan(SubSeq(breaks, 1, Len(breaks) - 1), 1, 0)

\* start_time is NOT NULL in break_periods, so "start_time and end_time" is
\* decided by end_time alone.
calculate_break_time(breaks) == BreakScan(breaks, 1, 0)

\* Overtime as the plain difference.
overtime_unclamped(productive_seconds, work_norm_seconds) ==
    productive_seconds - work_norm_seconds

\* "Calculate overtime/deficit": the two branches of the comparison.
overtime_of(productive_seconds, work_norm_seconds) ==
    IF productive_seconds > work_norm_seconds
      THEN productive_seconds - work_norm_seconds ELSE 0

deficit_of(productive_seconds, work_norm_seconds) ==
    IF productive_seconds > work_norm_seconds
      THEN 0 ELSE work_norm_seconds - productive_seconds

calculate_all_times(acts, breaks, norm_minutes, clock) ==
    LET total_work_seconds == calculate_work_time(acts)
        total_break_seconds == calculate_break_time(breaks)
        current_session_seconds == calculate_current_session_time(acts, clock)
        productive_seconds == total_work_seconds
        work_norm_seconds == norm_minutes * SecondsPerMinute
        overtime_seconds == overtime_of(productive_seconds, work_norm_seconds)
        deficit_seconds == deficit_of(productive_seconds, work_norm_seconds)
        remaining_seconds == deficit_seconds
    IN [total_work_seconds |-> total_work_seconds,
        total_break_seconds |-> total_break_seconds,
        productive_seconds |-> productive_seconds,
        overtime_seconds |-> overtime_seconds,
        deficit_seconds |-> deficit_seconds,
        remaining_seconds |-> remaining_seconds,
        current_session_seconds |-> current_session_seconds,
        work_norm_seconds |-> work_norm_seconds,
        total_work_minutes |-> total_work_seconds \div SecondsPerMinute,
        total_break_minutes |-> total_break_seconds \div SecondsPerMinute,
        productive_minutes |-> productive_seconds \div SecondsPerMinute,
        overtime_minutes |-> overtime_seconds \div SecondsPerMinute,
        deficit_minutes |-> deficit_seconds \div SecondsPerMinute,
        remaining_minutes |-> remaining_seconds \div SecondsPerMinute,
        current_session_minutes |-> current_session_seconds \div SecondsPerMinute,
        is_overtime |-> overtime_seconds > 0,
        work_norm_minutes |-> norm_minutes]

\* TimeCalculation(): the dataclass defaults.
DefaultTimeCalculation ==
    [total_work_seconds |-> 0, total_break_seconds |-> 0, productive_seconds |-> 0,
     overtime_seconds |-> 0, deficit_seconds |-> 0, remaining_seconds |-> 0,
     current_session_seconds |-> 0,
     work_norm_seconds |-> DefaultWorkNormMinutes * SecondsPerMinute,
     total_work_minutes |-> 0, total_break_minutes |-> 0, productive_minutes |-> 0,
     overtime_minutes |-> 0, deficit_minutes |-> 0, remaining_minutes |-> 0,
     current_session_minutes |-> 0, is_overtime |-> FALSE,
     work_norm_minutes |-> DefaultWorkNormMinutes]

\* -------------------------------------------------- core/action_history.py
Reverse(s) == [i \in 1..Len(s) |-> s[Len(s) + 1 - i]]

\* A size limit kept by dropping the newest entry.
trim_newest(appended, maxh) ==
    IF Len(appended) > maxh THEN SubSeq(appended, 1, Len(appended) - 1) ELSE appended

\* "Maintain history size limit": pop(0) once the list is longer than max_history.
trim_history(appended, maxh) ==
    IF Len(appended) > maxh THEN Tail(appended) ELSE appended

\* record_action: build the snapshot (a fresh id, the clock's reading), append
\* it, then drop the oldest entry once the ledger exceeds max_history.
record_action(hist, maxh, id, clock, action_type, state_before, state_after, session_data_before, session_data_after, break_data, notes) ==
    LET snapshot == [id |-> id, action_type |-> action_type, timestamp |-> clock,
                     state_before |-> state_before, state_after |-> state_after,
                     session_data_before |-> session_data_before,
                     session_data_after |-> session_data_after,
                     break_data |-> break_data, revoked |-> FALSE,
                     revoke_timestamp |-> None, notes |-> notes]
    IN trim_history(Append(hist, snapshot), maxh)

NotRevoked(a) == ~a.revoked

get_revokable_actions(hist) == Reverse(SelectSeq(hist, NotRevoked))

get_last_action(hist) ==
    LET revokable == get_revokable_actions(hist)
    IN IF Len(revokable) > 0 THEN Some(revokable[1]) ELSE None

\* The first entry with this id, or None.
get_action_by_id(hist, action_id) ==
    LET hits == {i \in 1..Len(hist) : hist[i].id = action_id}
    IN IF hits = {} THEN None
       ELSE Some(hist[CHOOSE i \in hits : \A j \in hits : i <= j])

\* No window at all.
within_any_window(i) == TRUE

\* The window test with the bound included.
within_revoke_window_inclusive(i) == i <= RevokeWindow

\* "return i < 5": i is the 0-based position in the most-recent-first list.
within_revoke_window(i) == i < RevokeWindow

can_revoke_action(hist, action_id) ==
    LET action == get_action_by_id(hist, action_id)
        revokable == get_revokable_actions(hist)
        hits == {i \in 1..Len(revokable) : revokable[i].id = action_id}
    IN IF action = None \/ action[1].revoked THEN FALSE
       ELSE IF hits = {} THEN FALSE
       ELSE within_revoke_window((CHOOSE i \in hits : \A j \in hits : i <= j) - 1)

\* A revoke_action of the ledger that accepts an entry whatever its flag.
history_revoke_ok_any_flag(hist, action_id) == get_action_by_id(hist, action_id) # None

\* ActionHistory.revoke_action succeeds when the entry exists and is not revoked.
history_revoke_ok(hist, action_id) ==
    LET action == get_action_by_id(hist, action_id)
    IN action # None /\ ~action[1].revoked

\* ... and then flags the first entry with this id.
history_revoke(hist, action_id, notes, clock) ==
    IF ~history_revoke_ok(hist, action_id) THEN hist
    ELSE LET hits == {i \in 1..Len(hist) : hist[i].id = action_id}
             k == CHOOSE i \in hits : \A j \in hits : i <= j
         IN [hist EXCEPT ![k] =
                [@ EXCEPT !.revoked = TRUE,
                          !.revoke_timestamp = Some(clock),
                          !.notes = IF notes # None
                                      THEN Some(<<@, "Revoked", notes[1]>>)
                                      ELSE @]]

\* _get_action_description: the text per action type, marked when revoked.
get_action_description(action) ==
    LET base == CASE action.action_type = START_DAY -> "Started work day"
                  [] action.action_type = END_DAY -> "Ended work day"
                  [] action.action_type = STOP -> "Stopped work"
                  [] action.action_type = CONTINUE -> "Continued work"
                  [] OTHER -> action.action_type
    IN IF action.revoked THEN <<base, "(REVOKED)">> ELSE <<base>>

\* get_history_summary(limit): one summary per entry of the first limit
\* entries of the most-recent-first list of non-revoked entries; the
\* timestamp is shown as HH:MM:SS, its fraction of a second dropped.
get_history_summary(hist, limit) ==
    LET revokable == get_revokable_actions(hist)
        recent_actions == SubSeq(revokable, 1, Min(limit, Len(revokable)))
    IN [i \in 1..Len(recent_actions) |->
           [id |-> recent_actions[i].id,
            action_type |-> recent_actions[i].action_type,
            timestamp |-> recent_actions[i].timestamp \div TicksPerSecond,
            description |-> get_action_description(recent_actions[i]),
            can_revoke |-> can_revoke_action(hist, recent_actions[i].id),
            revoked |-> recent_actions[i].revoked]]

\* A clear_history that keeps the entries.
keep_history(hist) == hist

clear_history(hist) == <<>>

\* ------------------------------------------------------------------ state
VARIABLES
    now,              \* the wall clock at its latest reading (ticks)
    current_session,  \* WorklogManager.current_session: cached session row
    current_state,    \* WorklogManager.current_state
    current_break_id, \* WorklogManager.current_break_id
    timer_running,    \* WorklogManager.timer_running
    work_sessions,    \* table work_sessions (set of rows)
    action_log,       \* table action_log (rows in insertion order)
    break_periods,    \* table break_periods (rows in insertion order)
    session_seq,      \* AUTOINCREMENT counters: the last id handed out
    action_seq,
    break_seq,
    actions,          \* ActionHistory.actions
    max_history,      \* ActionHistory.max_history
    uuid_seq,         \* snapshots created so far (a fresh id per snapshot)
    tc_actions,       \* time calculator on its own: the action log given,
    tc_breaks,        \*   the break list given,
    tc_norm,          \*   the work norm in minutes,
    tc_now,           \*   the clock,
    tc_result,        \*   and the TimeCalculation returned
    timer_callback,   \* WorklogManager.timer_callback is set
    timer_threads     \* the _timer_loop threads started, where the
                      \*   specification follows them: where each stands

mgr_vars == <<now, current_session, current_state, current_break_id, timer_running,
              work_sessions, action_log, break_periods, session_seq, action_seq,
              break_seq>>
hist_vars == <<actions, max_history, uuid_seq>>
tc_vars == <<tc_actions, tc_breaks, tc_norm, tc_now, tc_result>>
loop_vars == <<timer_callback, timer_threads>>
vars == <<mgr_vars, hist_vars, tc_vars, loop_vars>>

\* ------------------------------------------------------- data/database.py
NewSessionRow(id) ==
    [id |-> id, start_time |-> None, end_time |-> None,
     total_work_minutes |-> 0, total_break_minutes |-> 0,
     productive_minutes |-> 0, overtime_minutes |-> 0, status |-> NOT_STARTED]

create_session(sessions, id) == sessions \cup {NewSessionRow(id)}

\* Today's row, or None.
get_session_by_date(sessions) ==
    IF sessions = {} THEN None ELSE Some(CHOOSE s \in sessions : TRUE)

\* UPDATE work_sessions SET <the columns named in kwargs> WHERE id = ?
update_session(sessions, session_id, kwargs) ==
    {IF s.id = session_id
       THEN [f \in DOMAIN s |-> IF f \in DOMAIN kwargs THEN kwargs[f] ELSE s[f]]
       ELSE s : s \in sessions}

log_action(log, id, session_id, action_type, timestamp, break_type) ==
    Append(log, [id |-> id, session_id |-> session_id, action_type |-> action_type,
                 timestamp |-> timestamp, break_type |-> break_type,
                 revoked |-> FALSE])

\* A get_session_actions without the revoked = FALSE condition.
get_session_actions_with_revoked(log, session_id) ==
    SelectSeq(log, LAMBDA r : r.session_id = session_id)

\* WHERE session_id = ? AND revoked = FALSE ORDER BY created_at
get_session_actions(log, session_id) ==
    SelectSeq(log, LAMBDA r : r.session_id = session_id /\ ~r.revoked)

create_break_period(breaks, id, session_id, break_type, start_time) ==
    Append(breaks, [id |-> id, session_id |-> session_id, break_type |-> break_type,
                    start_time |-> start_time, end_time |-> None,
                    duration_minutes |-> None])

end_break_period(breaks, break_id, end_time, duration_minutes) ==
    [i \in 1..Len(breaks) |->
        IF breaks[i].id = break_id
          THEN [breaks[i] EXCEPT !.end_time = Some(end_time),
                                 !.duration_minutes = Some(duration_minutes)]
          ELSE breaks[i]]

\* DELETE of the newest row, whatever the id asked for.
delete_latest_break_period(breaks, break_id) ==
    IF Len(breaks) = 0 THEN breaks ELSE SubSeq(breaks, 1, Len(breaks) - 1)

delete_break_period(breaks, break_id) ==
    SelectSeq(breaks, LAMBDA b : b.id # break_id)

reopen_break_period(breaks, break_id) ==
    [i \in 1..Len(breaks) |->
        IF breaks[i].id = break_id
          THEN [breaks[i] EXCEPT !.end_time = None, !.duration_minutes = None]
          ELSE breaks[i]]

\* rowcount > 0 of the UPDATE / DELETE ... WHERE id = ?
break_exists(breaks, break_id) == \E i \in 1..Len(breaks) : breaks[i].id = break_id

get_session_breaks(breaks, session_id) ==
    SelectSeq(breaks, LAMBDA b : b.session_id = session_id)

db_revoke_action(log, action_id) ==
    [i \in 1..Len(log) |->
        IF log[i].id = action_id THEN [log[i] EXCEPT !.revoked = TRUE] ELSE log[i]]

delete_session_breaks(breaks, session_id) ==
    SelectSeq(breaks, LAMBDA b : b.session_id # session_id)

delete_session_actions(log, session_id) ==
    SelectSeq(log, LAMBDA r : r.session_id # session_id)

delete_session(sessions, session_id) == {s \in sessions : s.id # session_id}

\* ------------------------------------------------- core/worklog_manager.py
\* settings_manager is None: the default norm.
WORK_NORM_MINUTES == DefaultWorkNormMinutes

FirstIndex(S) == CHOOSE i \in S : \A j \in S : i <= j

AbsVal(x) == IF x >= 0 THEN x ELSE -x

\* What a public operation returns and the state it leaves.
Result(ret, st) == [ret |-> ret, st |-> st]

refresh_session(cached, sessions) ==
    IF cached = None THEN cached
    ELSE LET updated == get_session_by_date(sessions)
         IN IF updated # None THEN updated ELSE cached

\* The dict of session fields a snapshot keeps.
session_data(cached) ==
    IF cached = None THEN None
    ELSE Some([session_id |-> cached[1].id, start_time |-> cached[1].start_time,
               end_time |-> cached[1].end_time, status |-> cached[1].status])

\* _record_action_in_history: the cached session before and after a refresh.
record_action_in_history(hist, maxh, id, clock, action_type, state_before, state_after, break_data, cached, sessions) ==
    record_action(hist, maxh, id, clock, action_type, state_before, state_after,
                  session_data(cached), session_data(refresh_session(cached, sessions)),
                  break_data, None)

\* get_current_calculations, the clock reading clock.
get_current_calculations(s, clock) ==
    IF s.current_session = None THEN DefaultTimeCalculation
    ELSE calculate_all_times(
             get_session_actions(s.action_log, s.current_session[1].id),
             get_session_breaks(s.break_periods, s.current_session[1].id),
             WORK_NORM_MINUTES, clock)

\* The state checks that open the four transitions.
start_day_allowed_restart(state) == state \in {NOT_STARTED, DAY_ENDED}
start_day_allowed(state) == state = NOT_STARTED
stop_work_allowed(state) == state = WORKING
continue_work_allowed(state) == state = ON_BREAK
end_day_allowed_working_only(state) == state = WORKING
end_day_allowed(state) == state \in {WORKING, ON_BREAK}

\* A table in which a break cannot be followed by the end of the day.
valid_transitions_break_must_continue(state) ==
    CASE state = NOT_STARTED -> {START_DAY}
      [] state = WORKING -> {STOP, END_DAY}
      [] state = ON_BREAK -> {CONTINUE}
      [] OTHER -> {}

\* can_perform_action's table.
valid_transitions(state) ==
    CASE state = NOT_STARTED -> {START_DAY}
      [] state = WORKING -> {STOP, END_DAY}
      [] state = ON_BREAK -> {CONTINUE, END_DAY}
      [] state = DAY_ENDED -> {}
      [] OTHER -> {}

can_perform_action(s, action_type) == action_type \in valid_transitions(s.current_state)

\* utils/validators.py, WorklogValidator.validate_state_transition: the
\* validator's own copy of the table; the pair (is_valid, error_message), the
\* message being the action and the state it names.
validator_valid_transitions(state) ==
    CASE state = NOT_STARTED -> {START_DAY}
      [] state = WORKING -> {STOP, END_DAY}
      [] state = ON_BREAK -> {CONTINUE, END_DAY}
      [] state = DAY_ENDED -> {}
      [] OTHER -> {}

validate_state_transition(state, action_type) ==
    IF action_type \notin validator_valid_transitions(state)
      THEN <<FALSE, <<"Cannot perform", action_type, "while in", state>>>>
    ELSE <<TRUE, "">>

\* validate_action_sequence: the loop from entry i on, previous_state being
\* the state_after of the last entry that was not skipped.
RECURSIVE SequenceScan(_, _, _)
SequenceScan(acts, i, previous_state) ==
    IF i > Len(acts) THEN TRUE
    ELSE IF acts[i].revoked THEN SequenceScan(acts, i + 1, previous_state)
    ELSE IF ~validate_state_transition(previous_state, acts[i].action_type)[1] THEN FALSE
    ELSE SequenceScan(acts, i + 1, acts[i].state_after)

\* validate_action_sequence(actions)[0]
validate_action_sequence(acts) == SequenceScan(acts, 1, NOT_STARTED)

\* The break next(b for b in breaks if b.id == current_break_id) finds, or None.
find_break(breaks, session_id, break_id) ==
    LET rows == get_session_breaks(breaks, session_id)
        hits == {i \in 1..Len(rows) : rows[i].id = break_id}
    IN IF hits = {} THEN None ELSE Some(rows[FirstIndex(hits)])

\* start_timer / stop_timer, as far as the flag goes.
start_timer(running) == TRUE
\* A stop_timer that leaves the flag as it is.
timer_left_running(running) == running
stop_timer(running) == FALSE

\* start_day, the clock reading s.now + d.
start_day(s, d) ==
    IF ~start_day_allowed(s.current_state) \/ s.current_session = None
      THEN Result(FALSE, s)
    ELSE
      LET timestamp == s.now + d
          sid == s.current_session[1].id
          sessions1 == update_session(s.work_sessions, sid,
                           [start_time |-> Some(timestamp), status |-> WORKING])
      IN Result(TRUE,
           [s EXCEPT
              !.now = timestamp,
              !.action_log = log_action(@, s.action_seq + 1, sid, START_DAY,
                                        timestamp, None),
              !.action_seq = @ + 1,
              !.work_sessions = sessions1,
              !.current_state = WORKING,
              !.timer_running = start_timer(@),
              !.actions = record_action_in_history(@, s.max_history, s.uuid_seq + 1,
                              timestamp, START_DAY, s.current_state, WORKING, None,
                              s.current_session, sessions1),
              !.uuid_seq = @ + 1,
              !.current_session = refresh_session(@, sessions1)])

\* break_data of a Stop snapshot.
stop_break_data(break_id, break_type, timestamp) ==
    Some([break_id |-> break_id, break_type |-> break_type,
          start_time |-> timestamp, end_time |-> None,
          duration_seconds |-> None, duration_minutes |-> None])

stop_work(s, d, break_type) ==
    IF ~stop_work_allowed(s.current_state) \/ s.current_session = None
      THEN Result(FALSE, s)
    ELSE
      LET timestamp == s.now + d
          sid == s.current_session[1].id
          break_id == s.break_seq + 1
      IN Result(TRUE,
           [s EXCEPT
              !.now = timestamp,
              !.action_log = log_action(@, s.action_seq + 1, sid, STOP, timestamp,
                                        Some(break_type)),
              !.action_seq = @ + 1,
              !.break_periods = create_break_period(@, break_id, sid, break_type,
                                                    timestamp),
              !.break_seq = break_id,
              !.current_break_id = Some(break_id),
              !.current_state = ON_BREAK,
              !.actions = record_action_in_history(@, s.max_history, s.uuid_seq + 1,
                              timestamp, STOP, s.current_state, ON_BREAK,
                              stop_break_data(break_id, break_type, timestamp),
                              s.current_session, s.work_sessions),
              !.uuid_seq = @ + 1,
              !.current_session = refresh_session(@, s.work_sessions)])

\* The whole minutes continue_work stores for a break of dt ticks.
continue_duration_seconds(dt) == Max(0, WholeSeconds(dt))
continue_duration_minutes(dt) ==
    Max(0, TruncDiv(continue_duration_seconds(dt), SecondsPerMinute))

continue_work(s, d) ==
    IF ~continue_work_allowed(s.current_state) \/ s.current_session = None
      THEN Result(FALSE, s)
    ELSE
      LET timestamp == s.now + d
          sid == s.current_session[1].id
          has_break == s.current_break_id # None
          current_break == IF has_break
                             THEN find_break(s.break_periods, sid, s.current_break_id[1])
                             ELSE None
          dt == timestamp - current_break[1].start_time
          duration_seconds == IF current_break # None
                                THEN continue_duration_seconds(dt) ELSE 0
          duration_minutes == IF current_break # None
                                THEN continue_duration_minutes(dt) ELSE 0
          break_info ==
              IF current_break # None
                THEN Some([break_id |-> s.current_break_id[1],
                           break_type |-> current_break[1].break_type,
                           start_time |-> current_break[1].start_time,
                           end_time |-> Some(timestamp),
                           duration_seconds |-> Some(duration_seconds),
                           duration_minutes |-> Some(duration_minutes)])
                ELSE None
      IN Result(TRUE,
           [s EXCEPT
              !.now = timestamp,
              !.break_periods = IF has_break
                                  THEN end_break_period(@, s.current_break_id[1],
                                                        timestamp, duration_minutes)
                                  ELSE @,
              !.current_break_id = None,
              !.action_log = log_action(@, s.action_seq + 1, sid, CONTINUE,
                                        timestamp, None),
              !.action_seq = @ + 1,
              !.current_state = WORKING,
              !.actions = record_action_in_history(@, s.max_history, s.uuid_seq + 1,
                              timestamp, CONTINUE, s.current_state, WORKING,
                              break_info, s.current_session, s.work_sessions),
              !.uuid_seq = @ + 1,
              !.current_session = refresh_session(@, s.work_sessions)])

\* The minutes end_day stores for a break of dt ticks.
end_day_duration_minutes(dt) == TruncDiv(dt, TicksPerSecond * SecondsPerMinute)

end_day(s, d) ==
    IF ~end_day_allowed(s.current_state) \/ s.current_session = None
      THEN Result(FALSE, s)
    ELSE
      LET timestamp == s.now + d
          sid == s.current_session[1].id
          closing == s.current_state = ON_BREAK /\ s.current_break_id # None
          current_break == IF closing
                             THEN find_break(s.break_periods, sid, s.current_break_id[1])
                             ELSE None
          breaks1 ==
              IF current_break # None
                THEN end_break_period(s.break_periods, s.current_break_id[1], timestamp,
                         end_day_duration_minutes(timestamp - current_break[1].start_time))
                ELSE s.break_periods
          log1 == log_action(s.action_log, s.action_seq + 1, sid, END_DAY, timestamp,
                             None)
          calculations ==
              get_current_calculations([s EXCEPT !.action_log = log1,
                                                 !.break_periods = breaks1], timestamp)
          sessions1 == update_session(s.work_sessions, sid,
              [end_time |-> Some(timestamp),
               total_work_minutes |-> calculations.total_work_minutes,
               total_break_minutes |-> calculations.total_break_minutes,
               productive_minutes |-> calculations.productive_minutes,
               overtime_minutes |-> calculations.overtime_minutes,
               status |-> DAY_ENDED])
      IN Result(TRUE,
           [s EXCEPT
              !.now = timestamp,
              !.break_periods = breaks1,
              !.current_break_id = IF closing THEN None ELSE @,
              !.action_log = log1,
              !.action_seq = @ + 1,
              !.work_sessions = sessions1,
              !.current_state = DAY_ENDED,
              !.timer_running = stop_timer(@),
              !.actions = record_action_in_history(@, s.max_history, s.uuid_seq + 1,
                              timestamp, END_DAY, s.current_state, DAY_ENDED, None,
                              s.current_session, sessions1),
              !.uuid_seq = @ + 1,
              !.current_session = refresh_session(@, sessions1)])

reset_day(s) ==
    IF s.current_session = None THEN Result(FALSE, s)
    ELSE
      LET session_id == s.current_session[1].id
          sessions1 == create_session(delete_session(s.work_sessions, session_id),
                                      s.session_seq + 1)
      IN Result(TRUE,
           [s EXCEPT
              !.timer_running = stop_timer(@),
              !.break_periods = delete_session_breaks(@, session_id),
              !.action_log = delete_session_actions(@, session_id),
              !.work_sessions = sessions1,
              !.session_seq = @ + 1,
              !.actions = clear_history(@),
              !.current_state = NOT_STARTED,
              !.current_break_id = None,
              !.current_session = get_session_by_date(sessions1)])

\* The action_log row revoke_action flags: the first non-revoked row of the
\* session with the snapshot's action type and a timestamp within 5 seconds.
matching_db_action(log, session_id, action) ==
    LET db_actions == get_session_actions(log, session_id)
        hits == {i \in 1..Len(db_actions) :
                    /\ db_actions[i].action_type = action.action_type
                    /\ AbsVal(db_actions[i].timestamp - action.timestamp)
                          < MatchToleranceSeconds * TicksPerSecond}
    IN IF hits = {} THEN None ELSE Some(db_actions[FirstIndex(hits)].id)

\* The break id a snapshot's break_data carries, or None.
snapshot_break_id(action) ==
    IF action.break_data # None THEN Some(action.break_data[1].break_id) ELSE None

\* _restore_state_from_action, START_DAY branch.
restore_start_day(s, action) ==
    IF s.current_session = None THEN s
    ELSE [s EXCEPT
            !.work_sessions = update_session(@, s.current_session[1].id,
                                  [start_time |-> None, status |-> NOT_STARTED]),
            !.timer_running = stop_timer(@)]

\* END_DAY branch: the state to go back to is read from the second entry of
\* the revokable list, the revoked entry being flagged already.
end_day_restore_state(hist) ==
    LET revokable == get_revokable_actions(hist)
    IN IF Len(revokable) > 1 THEN revokable[2].state_after ELSE WORKING

restore_end_day(s, action) ==
    IF s.current_session = None THEN s
    ELSE LET restore_state == end_day_restore_state(s.actions)
         IN [s EXCEPT
               !.current_state = restore_state,
               !.work_sessions = update_session(@, s.current_session[1].id,
                                     [end_time |-> None, status |-> restore_state]),
               !.timer_running = IF restore_state = WORKING
                                   THEN start_timer(@) ELSE @]

\* A STOP branch that leaves the break period in the store.
restore_stop_keeping_break(s, action) ==
    [s EXCEPT
       !.current_break_id = None,
       !.work_sessions = IF s.current_session # None
                           THEN update_session(@, s.current_session[1].id,
                                    [status |-> s.current_state])
                           ELSE @]

\* STOP branch.
restore_stop(s, action) ==
    LET break_id == snapshot_break_id(action)
        has_session == s.current_session # None
    IN [s EXCEPT
          !.break_periods = IF break_id # None /\ has_session
                              THEN delete_break_period(@, break_id[1]) ELSE @,
          !.current_break_id = None,
          !.work_sessions = IF has_session
                              THEN update_session(@, s.current_session[1].id,
                                       [status |-> s.current_state])
                              ELSE @]

\* CONTINUE branch.
restore_continue(s, action) ==
    LET break_id == snapshot_break_id(action)
        has_session == s.current_session # None
        reopening == break_id # None /\ has_session
        reopened == reopening /\ break_exists(s.break_periods, break_id[1])
    IN [s EXCEPT
          !.break_periods = IF reopening THEN reopen_break_period(@, break_id[1]) ELSE @,
          !.current_break_id = IF reopened THEN break_id ELSE @,
          !.work_sessions = IF has_session
                              THEN update_session(@, s.current_session[1].id,
                                       [status |-> s.current_state])
                              ELSE @]

\* _restore_state_from_action: s is the state with the entry flagged already.
restore_state_from_action(s, action) ==
    LET s0 == [s EXCEPT !.current_state = action.state_before]
        s1 == IF action.action_type = START_DAY THEN restore_start_day(s0, action)
              ELSE IF action.action_type = END_DAY THEN restore_end_day(s0, action)
              ELSE IF action.action_type = STOP THEN restore_stop(s0, action)
              ELSE IF action.action_type = CONTINUE THEN restore_continue(s0, action)
              ELSE s0
    IN [s1 EXCEPT !.current_session = refresh_session(@, s1.work_sessions)]

\* revoke_action, the clock reading s.now + d.
revoke_action(s, action_id, d) ==
    IF get_action_by_id(s.actions, action_id) = None THEN Result(FALSE, s)
    ELSE IF ~can_revoke_action(s.actions, action_id) THEN Result(FALSE, s)
    ELSE
      LET action == get_action_by_id(s.actions, action_id)[1]
          clock == s.now + d
          db_match == IF s.current_session # None
                        THEN matching_db_action(s.action_log, s.current_session[1].id,
                                                action)
                        ELSE None
          flagged == [s EXCEPT
                        !.now = clock,
                        !.actions = history_revoke(@, action_id,
                                        Some("User requested revoke"), clock),
                        !.action_log = IF db_match # None
                                         THEN db_revoke_action(@, db_match[1]) ELSE @]
      IN Result(TRUE, restore_state_from_action(flagged, action))

\* WorklogManager.__init__ and _load_todays_session on the store s holds: a
\* new manager with an empty ledger whose state is the status column of
\* today's row, or NOT_STARTED on a row it creates.
load_todays_session(s) ==
    LET session == get_session_by_date(s.work_sessions)
        sessions1 == IF session # None THEN s.work_sessions
                     ELSE create_session(s.work_sessions, s.session_seq + 1)
        state == IF session # None THEN session[1].status ELSE NOT_STARTED
    IN [s EXCEPT
          !.work_sessions = sessions1,
          !.session_seq = IF session # None THEN @ ELSE @ + 1,
          !.current_session = get_session_by_date(sessions1),
          !.current_state = state,
          !.current_break_id = None,
          !.actions = <<>>,
          !.max_history = DefaultMaxHistory,
          !.timer_running = IF state = WORKING THEN start_timer(FALSE) ELSE FALSE]

\* ------------------------------------------------- store calls that fail
\* Every Database method opens its own connection and commits before it
\* returns; a method that raises has written nothing, and what the methods
\* called before it wrote stays written.  faults is the set of Database
\* methods that raise when called.
StoreOps ==
    {"log_action", "update_session", "get_session_by_date", "create_break_period",
     "end_break_period", "get_session_breaks", "get_session_actions",
     "revoke_action", "delete_break_period", "reopen_break_period",
     "delete_session_breaks", "delete_session_actions", "delete_session",
     "create_session"}

FaultSets == {{}} \cup {{op} : op \in StoreOps}

\* How a call ends: it returns ret, or an exception leaves it; st is the state
\* it leaves behind either way.
Returned(ret, st) == [raised |-> FALSE, ret |-> ret, st |-> st]
Raised(st) == [raised |-> TRUE, ret |-> FALSE, st |-> st]

\* try: ... except Exception: log; return False
except_return_false(o) == IF o.raised THEN Returned(FALSE, o.st) ELSE o

\* The body of start_day's try block.
start_day_body(s, d, faults) ==
    IF ~start_day_allowed(s.current_state) \/ s.current_session = None
      THEN Returned(FALSE, s)
    ELSE
      LET timestamp == s.now + d
          sid == s.current_session[1].id
          s1 == [s EXCEPT !.now = timestamp]
          s2 == [s1 EXCEPT
                   !.action_log = log_action(@, s.action_seq + 1, sid, START_DAY,
                                             timestamp, None),
                   !.action_seq = @ + 1]
          s3 == [s2 EXCEPT
                   !.work_sessions = update_session(@, sid,
                                         [start_time |-> Some(timestamp),
                                          status |-> WORKING]),
                   !.current_state = WORKING,
                   !.timer_running = start_timer(@)]
          s4 == [s3 EXCEPT
                   !.actions = record_action_in_history(@, s.max_history,
                                   s.uuid_seq + 1, timestamp, START_DAY,
                                   s.current_state, WORKING, None,
                                   s.current_session, s3.work_sessions),
                   !.uuid_seq = @ + 1,
                   !.current_session = refresh_session(@, s3.work_sessions)]
      IN IF "log_action" \in faults THEN Raised(s1)
         ELSE IF "update_session" \in faults THEN Raised(s2)
         ELSE IF "get_session_by_date" \in faults THEN Raised(s3)
         ELSE Returned(TRUE, s4)

start_day_with_faults(s, d, faults) == except_return_false(start_day_body(s, d, faults))

\* The body of stop_work's try block.
stop_work_body(s, d, break_type, faults) ==
    IF ~stop_work_allowed(s.current_state) \/ s.current_session = None
      THEN Returned(FALSE, s)
    ELSE
      LET timestamp == s.now + d
          sid == s.current_session[1].id
          break_id == s.break_seq + 1
          s1 == [s EXCEPT !.now = timestamp]
          s2 == [s1 EXCEPT
                   !.action_log = log_action(@, s.action_seq + 1, sid, STOP,
                                             timestamp, Some(break_type)),
                   !.action_seq = @ + 1]
          s3 == [s2 EXCEPT
                   !.break_periods = create_break_period(@, break_id, sid,
                                                         break_type, timestamp),
                   !.break_seq = break_id,
                   !.current_break_id = Some(break_id),
                   !.current_state = ON_BREAK]
          s4 == [s3 EXCEPT
                   !.actions = record_action_in_history(@, s.max_history,
                                   s.uuid_seq + 1, timestamp, STOP, s.current_state,
                                   ON_BREAK,
                                   stop_break_data(break_id, break_type, timestamp),
                                   s.current_session, s.work_sessions),
                   !.uuid_seq = @ + 1,
                   !.current_session = refresh_session(@, s.work_sessions)]
      IN IF "log_action" \in faults THEN Raised(s1)
         ELSE IF "create_break_period" \in faults THEN Raised(s2)
         ELSE IF "get_session_by_date" \in faults THEN Raised(s3)
         ELSE Returned(TRUE, s4)

stop_work_with_faults(s, d, break_type, faults) == except_return_false(stop_work_body(s, d, break_type, faults))

\* The body of continue_work's try block.
continue_work_body(s, d, faults) ==
    IF ~continue_work_allowed(s.current_state) \/ s.current_session = None
      THEN Returned(FALSE, s)
    ELSE
      LET timestamp == s.now + d
          sid == s.current_session[1].id
          has_break == s.current_break_id # None
          current_break == IF has_break
                             THEN find_break(s.break_periods, sid, s.current_break_id[1])
                             ELSE None
          dt == timestamp - current_break[1].start_time
          duration_seconds == IF current_break # None
                                THEN continue_duration_seconds(dt) ELSE 0
          duration_minutes == IF current_break # None
                                THEN continue_duration_minutes(dt) ELSE 0
          break_info ==
              IF current_break # None
                THEN Some([break_id |-> s.current_break_id[1],
                           break_type |-> current_break[1].break_type,
                           start_time |-> current_break[1].start_time,
                           end_time |-> Some(timestamp),
                           duration_seconds |-> Some(duration_seconds),
                           duration_minutes |-> Some(duration_minutes)])
                ELSE None
          s1 == [s EXCEPT !.now = timestamp]
          s2 == [s1 EXCEPT
                   !.break_periods = IF has_break
                                       THEN end_break_period(@, s.current_break_id[1],
                                                timestamp, duration_minutes)
                                       ELSE @,
                   !.current_break_id = None]
          s3 == [s2 EXCEPT
                   !.action_log = log_action(@, s.action_seq + 1, sid, CONTINUE,
                                             timestamp, None),
                   !.action_seq = @ + 1,
                   !.current_state = WORKING]
          s4 == [s3 EXCEPT
                   !.actions = record_action_in_history(@, s.max_history,
                                   s.uuid_seq + 1, timestamp, CONTINUE,
                                   s.current_state, WORKING, break_info,
                                   s.current_session, s.work_sessions),
                   !.uuid_seq = @ + 1,
                   !.current_session = refresh_session(@, s.work_sessions)]
      IN IF has_break /\ "get_session_breaks" \in faults THEN Raised(s1)
         ELSE IF has_break /\ "end_break_period" \in faults THEN Raised(s1)
         ELSE IF "log_action" \in faults THEN Raised(s2)
         ELSE IF "get_session_by_date" \in faults THEN Raised(s3)
         ELSE Returned(TRUE, s4)

continue_work_with_faults(s, d, faults) == except_return_false(continue_work_body(s, d, faults))

\* get_current_calculations: two reads of the store and no try block.
get_current_calculations_with_faults(s, clock, faults) ==
    IF s.current_session = None THEN Returned(DefaultTimeCalculation, s)
    ELSE IF "get_session_actions" \in faults \/ "get_session_breaks" \in faults
      THEN Raised(s)
    ELSE Returned(get_current_calculations(s, clock), s)

\* The body of end_day's try block.
end_day_body(s, d, faults) ==
    IF ~end_day_allowed(s.current_state) \/ s.current_session = None
      THEN Returned(FALSE, s)
    ELSE
      LET timestamp == s.now + d
          sid == s.current_session[1].id
          closing == s.current_state = ON_BREAK /\ s.current_break_id # None
          current_break == IF closing
                             THEN find_break(s.break_periods, sid, s.current_break_id[1])
                             ELSE None
          s1 == [s EXCEPT !.now = timestamp]
          s2 == [s1 EXCEPT
                   !.break_periods =
                       IF current_break # None
                         THEN end_break_period(@, s.current_break_id[1], timestamp,
                                  end_day_duration_minutes(
                                      timestamp - current_break[1].start_time))
                         ELSE @,
                   !.current_break_id = IF closing THEN None ELSE @]
          s3 == [s2 EXCEPT
                   !.action_log = log_action(@, s.action_seq + 1, sid, END_DAY,
                                             timestamp, None),
                   !.action_seq = @ + 1]
          calculations == get_current_calculations(s3, timestamp)
          s4 == [s3 EXCEPT
                   !.work_sessions = update_session(@, sid,
                       [end_time |-> Some(timestamp),
                        total_work_minutes |-> calculations.total_work_minutes,
                        total_break_minutes |-> calculations.total_break_minutes,
                        productive_minutes |-> calculations.productive_minutes,
                        overtime_minutes |-> calculations.overtime_minutes,
                        status |-> DAY_ENDED]),
                   !.current_state = DAY_ENDED,
                   !.timer_running = stop_timer(@)]
          s5 == [s4 EXCEPT
                   !.actions = record_action_in_history(@, s.max_history,
                                   s.uuid_seq + 1, timestamp, END_DAY,
                                   s.current_state, DAY_ENDED, None,
                                   s.current_session, s4.work_sessions),
                   !.uuid_seq = @ + 1,
                   !.current_session = refresh_session(@, s4.work_sessions)]
      IN IF closing /\ "get_session_breaks" \in faults THEN Raised(s1)
         ELSE IF current_break # None /\ "end_break_period" \in faults THEN Raised(s1)
         ELSE IF "log_action" \in faults THEN Raised(s2)
         ELSE IF get_current_calculations_with_faults(s3, timestamp, faults).raised
           THEN Raised(s3)
         ELSE IF "update_session" \in faults THEN Raised(s3)
         ELSE IF "get_session_by_date" \in faults THEN Raised(s4)
         ELSE Returned(TRUE, s5)

end_day_with_faults(s, d, faults) == except_return_false(end_day_body(s, d, faults))

\* _restore_state_from_action while the store methods in faults raise.  The
\* STOP and CONTINUE branches catch what delete_break_period and
\* reopen_break_period raise and go on; nothing else is caught here.
restore_state_from_action_body(s, action, faults) ==
    LET s0 == [s EXCEPT !.current_state = action.state_before]
        has_session == s.current_session # None
        updating == has_session /\ "update_session" \in faults
        break_id == snapshot_break_id(action)
        s_end == [s0 EXCEPT !.current_state = end_day_restore_state(s.actions)]
        s_stop == [s0 EXCEPT
                     !.break_periods =
                         IF /\ break_id # None
                            /\ has_session
                            /\ "delete_break_period" \notin faults
                           THEN delete_break_period(@, break_id[1]) ELSE @,
                     !.current_break_id = None]
        s_cont == IF "reopen_break_period" \in faults
                    THEN s0
                    ELSE [restore_continue(s0, action) EXCEPT
                             !.work_sessions = s0.work_sessions]
        s1 == IF action.action_type = START_DAY THEN restore_start_day(s0, action)
              ELSE IF action.action_type = END_DAY THEN restore_end_day(s0, action)
              ELSE IF action.action_type = STOP
                THEN [s_stop EXCEPT !.work_sessions = restore_stop(s0, action).work_sessions]
              ELSE IF action.action_type = CONTINUE
                THEN [s_cont EXCEPT
                        !.work_sessions = restore_continue(s0, action).work_sessions]
              ELSE s0
    IN IF updating /\ action.action_type = START_DAY THEN Raised(s0)
       ELSE IF updating /\ action.action_type = END_DAY THEN Raised(s_end)
       ELSE IF updating /\ action.action_type = STOP THEN Raised(s_stop)
       ELSE IF updating /\ action.action_type = CONTINUE THEN Raised(s_cont)
       ELSE IF has_session /\ "get_session_by_date" \in faults THEN Raised(s1)
       ELSE Returned(TRUE,
                [s1 EXCEPT !.current_session = refresh_session(@, s1.work_sessions)])

\* The body of revoke_action's try block.
revoke_action_body(s, action_id, d, faults) ==
    IF get_action_by_id(s.actions, action_id) = None THEN Returned(FALSE, s)
    ELSE IF ~can_revoke_action(s.actions, action_id) THEN Returned(FALSE, s)
    ELSE
      LET action == get_action_by_id(s.actions, action_id)[1]
          clock == s.now + d
          has_session == s.current_session # None
          db_match == IF has_session
                        THEN matching_db_action(s.action_log, s.current_session[1].id,
                                                action)
                        ELSE None
          s1 == [s EXCEPT
                   !.now = clock,
                   !.actions = history_revoke(@, action_id,
                                   Some("User requested revoke"), clock)]
          s2 == [s1 EXCEPT
                   !.action_log = IF db_match # None
                                    THEN db_revoke_action(@, db_match[1]) ELSE @]
          restored == restore_state_from_action_body(s2, action, faults)
      IN IF has_session /\ "get_session_actions" \in faults THEN Raised(s1)
         ELSE IF db_match # None /\ "revoke_action" \in faults THEN Raised(s1)
         ELSE restored

revoke_action_with_faults(s, action_id, d, faults) == except_return_false(revoke_action_body(s, action_id, d, faults))

\* The body of reset_day's try block.
reset_day_body(s, faults) ==
    IF s.current_session = None THEN Returned(FALSE, s)
    ELSE
      LET session_id == s.current_session[1].id
          s1 == [s EXCEPT !.timer_running = stop_timer(@)]
          s2 == [s1 EXCEPT !.break_periods = delete_session_breaks(@, session_id)]
          s3 == [s2 EXCEPT !.action_log = delete_session_actions(@, session_id)]
          s4 == [s3 EXCEPT
                   !.work_sessions = delete_session(@, session_id),
                   !.actions = clear_history(@),
                   !.current_session = None,
                   !.current_state = NOT_STARTED,
                   !.current_break_id = None]
          s5 == [s4 EXCEPT
                   !.work_sessions = create_session(@, s.session_seq + 1),
                   !.session_seq = @ + 1]
          s6 == [s5 EXCEPT !.current_session = get_session_by_date(s5.work_sessions)]
      IN IF "delete_session_breaks" \in faults THEN Raised(s1)
         ELSE IF "delete_session_actions" \in faults THEN Raised(s2)
         ELSE IF "delete_session" \in faults THEN Raised(s3)
         ELSE IF "create_session" \in faults THEN Raised(s4)
         ELSE IF "get_session_by_date" \in faults THEN Raised(s5)
         ELSE Returned(TRUE, s6)

reset_day_with_faults(s, faults) == except_return_false(reset_day_body(s, faults))

\* ------------------------------------- export_history / import_history
\* Values as they travel in history_data: an Enum member, a str, a datetime,
\* or the text datetime.isoformat() gives for a tick.
PyEnum(v) == [py |-> "enum", v |-> v]
PyStr(v) == [py |-> "str", v |-> v]
PyDatetime(t) == [py |-> "datetime", v |-> t]
PyIsoStr(t) == [py |-> "isostr", v |-> t]

\* dataclasses.asdict of every entry: Enum members and datetimes stay what
\* they are.
export_history(hist) ==
    [i \in 1..Len(hist) |->
        [hist[i] EXCEPT
            !.action_type = PyEnum(@),
            !.state_before = PyEnum(@),
            !.state_after = PyEnum(@),
            !.timestamp = PyDatetime(@),
            !.revoke_timestamp = IF @ = None THEN None ELSE Some(PyDatetime(@[1]))]]

\* EnumClass(x): the member for a member or for a member's value; None stands
\* for the ValueError anything else gets.
enum_call(members, x) ==
    IF x.py \in {"enum", "str"} /\ x.v \in members THEN Some(x.v) ELSE None

\* datetime_fromisoformat(x): the tick for ISO text; None stands for the
\* exception a datetime or any other text gets.
datetime_fromisoformat(x) == IF x.py = "isostr" THEN Some(x.v) ELSE None

\* The conversions import_history makes on one dict all succeed.
importable(data) ==
    /\ enum_call(ActionType, data.action_type) # None
    /\ enum_call(WorklogState, data.state_before) # None
    /\ enum_call(WorklogState, data.state_after) # None
    /\ datetime_fromisoformat(data.timestamp) # None
    /\ data.revoke_timestamp # None
         => datetime_fromisoformat(data.revoke_timestamp[1]) # None

\* import_history: the ledger is replaced when every dict converts; the except
\* block logs and raises again.
import_history(hist, history_data) ==
    IF \E i \in 1..Len(history_data) : ~importable(history_data[i])
      THEN Raised(hist)
    ELSE Returned(None,
           [i \in 1..Len(history_data) |->
              [history_data[i] EXCEPT
                 !.action_type = enum_call(ActionType, @)[1],
                 !.state_before = enum_call(WorklogState, @)[1],
                 !.state_after = enum_call(WorklogState, @)[1],
                 !.timestamp = datetime_fromisoformat(@)[1],
                 !.revoke_timestamp =
                     IF @ = None THEN None
                     ELSE Some(datetime_fromisoformat(@[1])[1])]])

\* --------------------------------------------------- the manager's machine
\* The manager, its ledger and its store as one value.
St ==
    [now |-> now, current_session |-> current_session,
     current_state |-> current_state, current_break_id |-> current_break_id,
     timer_running |-> timer_running, work_sessions |-> work_sessions,
     action_log |-> action_log, break_periods |-> break_periods,
     session_seq |-> session_seq, action_seq |-> action_seq, break_seq |-> break_seq,
     actions |-> actions, max_history |-> max_history, uuid_seq |-> uuid_seq]

Apply(st) ==
    /\ now' = st.now
    /\ current_session' = st.current_session
    /\ current_state' = st.current_state
    /\ current_break_id' = st.current_break_id
    /\ timer_running' = st.timer_running
    /\ work_sessions' = st.work_sessions
    /\ action_log' = st.action_log
    /\ break_periods' = st.break_periods
    /\ session_seq' = st.session_seq
    /\ action_seq' = st.action_seq
    /\ break_seq' = st.break_seq
    /\ actions' = st.actions
    /\ max_history' = st.max_history
    /\ uuid_seq' = st.uuid_seq

WithinBounds(st) ==
    /\ st.now <= MaxNow
    /\ st.action_seq <= MaxTransitions
    /\ st.session_seq <= MaxSessions

\* Ids a caller may hand to revoke_action: every id handed out so far, and one
\* never handed out.
KnownIds == 1..(uuid_seq + 1)

\* WorklogManager("worklog.db") on an empty store: _load_todays_session
\* creates today's session.
Init ==
    /\ timer_callback = FALSE
    /\ timer_threads = <<>>
    /\ now = 0
    /\ work_sessions = create_session({}, 1)
    /\ session_seq = 1
    /\ current_session = get_session_by_date(create_session({}, 1))
    /\ current_state = NOT_STARTED
    /\ current_break_id = None
    /\ timer_running = FALSE
    /\ action_log = <<>>
    /\ break_periods = <<>>
    /\ action_seq = 0
    /\ break_seq = 0
    /\ actions = <<>>
    /\ max_history = DefaultMaxHistory
    /\ uuid_seq = 0
    /\ tc_actions = <<>>
    /\ tc_breaks = <<>>
    /\ tc_norm = DefaultWorkNormMinutes
    /\ tc_now = 0
    /\ tc_result = None

StartDay ==
    \E d \in Delta :
        LET r == start_day(St, d)
        IN WithinBounds(r.st) /\ Apply(r.st) /\ UNCHANGED <<tc_vars, loop_vars>>

StopWork ==
    \E d \in Delta, bt \in BreakTypesUsed :
        LET r == stop_work(St, d, bt)
        IN WithinBounds(r.st) /\ Apply(r.st) /\ UNCHANGED <<tc_vars, loop_vars>>

ContinueWork ==
    \E d \in Delta :
        LET r == continue_work(St, d)
        IN WithinBounds(r.st) /\ Apply(r.st) /\ UNCHANGED <<tc_vars, loop_vars>>

EndDay ==
    \E d \in Delta :
        LET r == end_day(St, d)
        IN WithinBounds(r.st) /\ Apply(r.st) /\ UNCHANGED <<tc_vars, loop_vars>>

ResetDay ==
    LET r == reset_day(St)
    IN WithinBounds(r.st) /\ Apply(r.st) /\ UNCHANGED <<tc_vars, loop_vars>>

Revoke ==
    \E id \in KnownIds, d \in RevokeDelta :
        LET r == revoke_action(St, id, d)
        IN WithinBounds(r.st) /\ Apply(r.st) /\ UNCHANGED <<tc_vars, loop_vars>>

Next ==
    \/ StartDay
    \/ StopWork
    \/ ContinueWork
    \/ EndDay
    \/ ResetDay
    \/ Revoke

Spec == Init /\ [][Next]_vars

\* ------------------------------------------- the manager, calls in a row
\* The same manager driven by calls that follow one another within a tick,
\* without resets, and undoing the latest entry only: longer days than Spec
\* explores, so that the ledger grows past the revoke window.
QuickDelta == {1}

WithinQuickBounds(st) == st.action_seq <= MaxQuickTransitions

QStartDay ==
    \E d \in QuickDelta :
        LET r == start_day(St, d)
        IN r.ret /\ WithinQuickBounds(r.st) /\ Apply(r.st) /\ UNCHANGED <<tc_vars, loop_vars>>

QStopWork ==
    \E d \in QuickDelta, bt \in BreakTypesUsed :
        LET r == stop_work(St, d, bt)
        IN r.ret /\ WithinQuickBounds(r.st) /\ Apply(r.st) /\ UNCHANGED <<tc_vars, loop_vars>>

QContinueWork ==
    \E d \in QuickDelta :
        LET r == continue_work(St, d)
        IN r.ret /\ WithinQuickBounds(r.st) /\ Apply(r.st) /\ UNCHANGED <<tc_vars, loop_vars>>

QEndDay ==
    \E d \in QuickDelta :
        LET r == end_day(St, d)
        IN r.ret /\ WithinQuickBounds(r.st) /\ Apply(r.st) /\ UNCHANGED <<tc_vars, loop_vars>>

\* Undo: revoke_action on the most recent entry that is not revoked.
QRevokeLast ==
    \E d \in RevokeDelta :
        /\ get_last_action(actions) # None
        /\ LET r == revoke_action(St, get_last_action(actions)[1].id, d)
           IN r.ret /\ Apply(r.st) /\ UNCHANGED <<tc_vars, loop_vars>>

QNext ==
    \/ QStartDay
    \/ QStopWork
    \/ QContinueWork
    \/ QEndDay
    \/ QRevokeLast

QuickSpec == Init /\ [][QNext]_vars

\* ---------------------------------------------- the Action History alone
\* ActionHistory(max_history) driven directly: record_action and revoke_action
\* calls in any order.  The manager and its store stay as constructed.
MaxHistoryValues == {1, SmallMaxHistory, DefaultMaxHistory}

\* (action_type, state_before, state_after) triples record_action is given.
RecordedKinds == {<<START_DAY, NOT_STARTED, WORKING>>, <<STOP, WORKING, ON_BREAK>>}

RevokeNotes == {None, Some("User requested revoke")}

\* The clock does not move between the calls made on the history alone.
HistDelta == {0}

HInit ==
    /\ timer_callback = FALSE
    /\ timer_threads = <<>>
    /\ now = 0
    /\ work_sessions = create_session({}, 1)
    /\ session_seq = 1
    /\ current_session = get_session_by_date(create_session({}, 1))
    /\ current_state = NOT_STARTED
    /\ current_break_id = None
    /\ timer_running = FALSE
    /\ action_log = <<>>
    /\ break_periods = <<>>
    /\ action_seq = 0
    /\ break_seq = 0
    /\ actions = <<>>
    /\ max_history \in MaxHistoryValues
    /\ uuid_seq = 0
    /\ tc_actions = <<>>
    /\ tc_breaks = <<>>
    /\ tc_norm = DefaultWorkNormMinutes
    /\ tc_now = 0
    /\ tc_result = None

HRecord ==
    \E k \in RecordedKinds, d \in HistDelta :
        /\ uuid_seq < MaxRecorded
        /\ actions' = record_action(actions, max_history, uuid_seq + 1, now + d,
                                    k[1], k[2], k[3], None, None, None, None)
        /\ uuid_seq' = uuid_seq + 1
        /\ now' = now + d
        /\ UNCHANGED <<current_session, current_state, current_break_id,
                       timer_running, work_sessions, action_log, break_periods,
                       session_seq, action_seq, break_seq, max_history, tc_vars,
                       loop_vars>>

HRevoke ==
    \E id \in KnownIds, notes \in RevokeNotes, d \in HistDelta :
        /\ actions' = history_revoke(actions, id, notes, now + d)
        /\ now' = now + d
        /\ UNCHANGED <<current_session, current_state, current_break_id,
                       timer_running, work_sessions, action_log, break_periods,
                       session_seq, action_seq, break_seq, max_history, uuid_seq,
                       tc_vars, loop_vars>>

HNext ==
    \/ HRecord
    \/ HRevoke

HistSpec == HInit /\ [][HNext]_vars

\* ------------------------------------------- the Action History, short
\* The same ledger with fewer record_action calls, for statements that compare
\* whole ledgers before and after a call.
LRecord == uuid_seq < MaxLedgerRecorded /\ HRecord

LNext == LRecord \/ HRevoke

LedgerSpec == HInit /\ [][LNext]_vars

\* ------------------------------------- the manager, clock set back
\* The same manager on a machine whose clock is corrected between two calls:
\* a reading is a tick after the one before, or a minute and a tick before it.
SkewDelta == {1, -(SecondsPerMinute * TicksPerSecond + 1)}

\* The first reading of the clock, late enough for every reading to be
\* after the model's time zero.
SkewStart == (MaxSkewTransitions + 1) * (SecondsPerMinute * TicksPerSecond + 1)

WithinSkewBounds(st) == st.action_seq <= MaxSkewTransitions

SkInit ==
    /\ timer_callback = FALSE
    /\ timer_threads = <<>>
    /\ now = SkewStart
    /\ work_sessions = create_session({}, 1)
    /\ session_seq = 1
    /\ current_session = get_session_by_date(create_session({}, 1))
    /\ current_state = NOT_STARTED
    /\ current_break_id = None
    /\ timer_running = FALSE
    /\ action_log = <<>>
    /\ break_periods = <<>>
    /\ action_seq = 0
    /\ break_seq = 0
    /\ actions = <<>>
    /\ max_history = DefaultMaxHistory
    /\ uuid_seq = 0
    /\ tc_actions = <<>>
    /\ tc_breaks = <<>>
    /\ tc_norm = DefaultWorkNormMinutes
    /\ tc_now = 0
    /\ tc_result = None

SkStartDay ==
    \E d \in SkewDelta :
        LET r == start_day(St, d)
        IN r.ret /\ WithinSkewBounds(r.st) /\ Apply(r.st) /\ UNCHANGED <<tc_vars, loop_vars>>

SkStopWork ==
    \E d \in SkewDelta, bt \in BreakTypesUsed :
        LET r == stop_work(St, d, bt)
        IN r.ret /\ WithinSkewBounds(r.st) /\ Apply(r.st) /\ UNCHANGED <<tc_vars, loop_vars>>

SkContinueWork ==
    \E d \in SkewDelta :
        LET r == continue_work(St, d)
        IN r.ret /\ WithinSkewBounds(r.st) /\ Apply(r.st) /\ UNCHANGED <<tc_vars, loop_vars>>

SkEndDay ==
    \E d \in SkewDelta :
        LET r == end_day(St, d)
        IN r.ret /\ WithinSkewBounds(r.st) /\ Apply(r.st) /\ UNCHANGED <<tc_vars, loop_vars>>

SkNext == SkStartDay \/ SkStopWork \/ SkContinueWork \/ SkEndDay

SkewSpec == SkInit /\ [][SkNext]_vars

\* ------------------------------------ the manager and its timer threads
\* The manager driven as in QuickSpec, together with the threads start_timer
\* creates, each running _timer_loop one statement at a time.  stop_timer's
\* join(timeout=1) changes nothing: it returns when the thread has returned
\* or a second has passed, whichever is first, and what the thread does in
\* the meantime are steps of the thread.
NewThread == [pc |-> "while"]

\* start_timer creates and starts a thread when the flag was not set: the
\* threads after a call that found the flag as running_before and left it as
\* running_after.
threads_started(threads, running_before, running_after) ==
    IF ~running_before /\ running_after THEN Append(threads, NewThread) ELSE threads

\* A tick whose condition is the callback alone.
tick_invokes_in_any_state(callback, state) == callback

\* if self.timer_callback and self.current_state == WorklogState.WORKING
tick_invokes(callback, state) == callback /\ state = WORKING

\* One statement of _timer_loop: the while test, the if test, the call of
\* the callback, the sleep.  The callback the application registers schedules a redraw and
\* catches what that raises.
timer_loop_step(thread, running, callback, state) ==
    IF thread.pc = "while"
      THEN [thread EXCEPT !.pc = IF running THEN "if" ELSE "returned"]
    ELSE IF thread.pc = "if"
      THEN [thread EXCEPT !.pc = IF tick_invokes(callback, state) THEN "call" ELSE "sleep"]
    ELSE IF thread.pc = "call" THEN [thread EXCEPT !.pc = "sleep"]
    ELSE IF thread.pc = "sleep" THEN [thread EXCEPT !.pc = "while"]
    ELSE thread

is_alive(thread) == thread.pc # "returned"

WithinTimerBounds(st) == st.action_seq <= MaxTimerTransitions

\* The effect of a manager call on the manager and on the threads.
TApply(st) ==
    /\ Apply(st)
    /\ timer_threads' = threads_started(timer_threads, timer_running, st.timer_running)
    /\ Len(timer_threads') <= MaxThreads
    /\ UNCHANGED <<tc_vars, timer_callback>>

\* The manager constructed, with or without set_timer_callback called.
TInit ==
    /\ timer_callback \in BOOLEAN
    /\ timer_threads = <<>>
    /\ now = 0
    /\ work_sessions = create_session({}, 1)
    /\ session_seq = 1
    /\ current_session = get_session_by_date(create_session({}, 1))
    /\ current_state = NOT_STARTED
    /\ current_break_id = None
    /\ timer_running = FALSE
    /\ action_log = <<>>
    /\ break_periods = <<>>
    /\ action_seq = 0
    /\ break_seq = 0
    /\ actions = <<>>
    /\ max_history = DefaultMaxHistory
    /\ uuid_seq = 0
    /\ tc_actions = <<>>
    /\ tc_breaks = <<>>
    /\ tc_norm = DefaultWorkNormMinutes
    /\ tc_now = 0
    /\ tc_result = None

TStartDay ==
    \E d \in QuickDelta :
        LET r == start_day(St, d)
        IN r.ret /\ WithinTimerBounds(r.st) /\ TApply(r.st)

TStopWork ==
    \E d \in QuickDelta :
        LET r == stop_work(St, d, COFFEE)
        IN r.ret /\ WithinTimerBounds(r.st) /\ TApply(r.st)

TContinueWork ==
    \E d \in QuickDelta :
        LET r == continue_work(St, d)
        IN r.ret /\ WithinTimerBounds(r.st) /\ TApply(r.st)

TEndDay ==
    \E d \in QuickDelta :
        LET r == end_day(St, d)
        IN r.ret /\ WithinTimerBounds(r.st) /\ TApply(r.st)

\* Undo: revoke_action on the most recent entry that is not revoked.
TRevokeLast ==
    \E d \in RevokeDelta :
        /\ get_last_action(actions) # None
        /\ LET r == revoke_action(St, get_last_action(actions)[1].id, d)
           IN r.ret /\ TApply(r.st)

\* stop_timer called on the manager, as the main window does when it closes.
TStopTimer ==
    /\ timer_running
    /\ TApply([St EXCEPT !.timer_running = stop_timer(@)])

\* Thread i executes its next statement.
TimerLoop(i) ==
    /\ i \in 1..Len(timer_threads)
    /\ is_alive(timer_threads[i])
    /\ timer_threads' =
         [timer_threads EXCEPT
            ![i] = timer_loop_step(@, timer_running, timer_callback, current_state)]
    /\ UNCHANGED <<mgr_vars, hist_vars, tc_vars, timer_callback>>

TTimerLoop == \E i \in 1..MaxThreads : TimerLoop(i)

TNext ==
    \/ TStartDay
    \/ TStopWork
    \/ TContinueWork
    \/ TEndDay
    \/ TRevokeLast
    \/ TStopTimer
    \/ TTimerLoop

TimerSpec == TInit /\ [][TNext]_vars

\* Every thread that can execute a statement eventually does.
TimerFairSpec == TimerSpec /\ \A i \in 1..MaxThreads : WF_vars(TimerLoop(i))

\* --------------------------------------------- the time calculator alone
\* calculate_all_times given an action log and a break list directly.
\* Work norms of the settings: the default, and one minute.
TcNorms == {DefaultWorkNormMinutes, 1}

\* Gaps between two consecutive log timestamps, in ticks: a fraction of a
\* second, just under a minute, and 300, 450 and 500 minutes.
TcGaps ==
    {1, (SecondsPerMinute - 1) * TicksPerSecond + 1}
    \cup {m * SecondsPerMinute * TicksPerSecond : m \in {300, 450, 500}}

TcSteps == LoggedActionTypes \X TcGaps

\* The sequences over S of length at most n.
SeqsUpTo(S, n) == UNION {[1..k -> S] : k \in 0..n}

RECURSIVE TimestampOf(_, _)
TimestampOf(steps, i) == IF i = 0 THEN 0 ELSE steps[i][2] + TimestampOf(steps, i - 1)

\* The ActionLog rows of a sequence of (action type, gap) steps.
LogOf(steps) ==
    [i \in 1..Len(steps) |->
        [id |-> i, session_id |-> 1, action_type |-> steps[i][1],
         timestamp |-> TimestampOf(steps, i), break_type |-> None,
         revoked |-> FALSE]]

\* BreakPeriod rows: closed after a fraction of a second or after 300
\* minutes, still open, and with a stored duration but no end time.
TcBreakRows ==
    {[id |-> 1, session_id |-> 1, break_type |-> COFFEE, start_time |-> 1,
      end_time |-> e, duration_minutes |-> m] :
        e \in {None, Some(2), Some(1 + 300 * SecondsPerMinute * TicksPerSecond)},
        m \in {None, Some(1)}}

\* The clock at the time of the call: after every timestamp drawn.
TcHorizon == (MaxLogLen + 1) * 500 * SecondsPerMinute * TicksPerSecond

TcInit ==
    /\ timer_callback = FALSE
    /\ timer_threads = <<>>
    /\ now = 0
    /\ work_sessions = create_session({}, 1)
    /\ session_seq = 1
    /\ current_session = get_session_by_date(create_session({}, 1))
    /\ current_state = NOT_STARTED
    /\ current_break_id = None
    /\ timer_running = FALSE
    /\ action_log = <<>>
    /\ break_periods = <<>>
    /\ action_seq = 0
    /\ break_seq = 0
    /\ actions = <<>>
    /\ max_history = DefaultMaxHistory
    /\ uuid_seq = 0
    /\ tc_norm \in TcNorms
    /\ \/ /\ \E steps \in SeqsUpTo(TcSteps, MaxLogLen) : tc_actions = LogOf(steps)
          /\ tc_breaks = <<>>
          /\ tc_now = TcHorizon
       \/ /\ tc_actions \in {<<>>, LogOf(<<<<START_DAY, 1>>>>)}
          /\ tc_breaks \in SeqsUpTo(TcBreakRows, MaxBreaksLen)
          /\ tc_now \in {TcHorizon, TcHorizon + 1}
    /\ tc_result = None

TcCalculate ==
    /\ tc_result' = Some(calculate_all_times(tc_actions, tc_breaks, tc_norm, tc_now))
    /\ UNCHANGED <<mgr_vars, hist_vars, loop_vars, tc_actions, tc_breaks, tc_norm, tc_now>>

TcNext == TcCalculate

CalcSpec == TcInit /\ [][TcNext]_vars

\* ------------------------------------------------------------------ claims
\* The transition table of the specification (section 4.1): the resulting
\* state of an action in a state, or None where the table has no entry.
TablePrediction(state, action_type) ==
    IF action_type = START_DAY /\ state = NOT_STARTED THEN Some(WORKING)
    ELSE IF action_type = STOP /\ state = WORKING THEN Some(ON_BREAK)
    ELSE IF action_type = CONTINUE /\ state = ON_BREAK THEN Some(WORKING)
    ELSE IF action_type = END_DAY /\ state \in {WORKING, ON_BREAK} THEN Some(DAY_ENDED)
    ELSE None

\* The four transition operations called in state s, the clock d ticks on.
Transition(s, action_type, d) ==
    IF action_type = START_DAY THEN start_day(s, d)
    ELSE IF action_type = STOP THEN stop_work(s, d, GENERAL)
    ELSE IF action_type = CONTINUE THEN continue_work(s, d)
    ELSE end_day(s, d)

Transitions == {START_DAY, STOP, CONTINUE, END_DAY}

NoRevokedSnapshot == \A i \in 1..Len(actions) : ~actions[i].revoked

\* C1: in every state reached by start_day, stop_work, continue_work and
\* end_day calls, each of the four calls returns True exactly when the
\* transition table has an entry for (current state, action), and the state it
\* leaves is the table's prediction (the state is kept when there is no entry).
C1_TransitionsFollowTable ==
    \A a \in Transitions, d \in Delta :
        LET r == Transition(St, a, d)
            predicted == TablePrediction(current_state, a)
        IN /\ r.ret = (predicted # None)
           /\ r.st.current_state = IF predicted # None THEN predicted[1]
                                                        ELSE current_state

\* C1 witness: a day replayed to its end, StartDay, Stop, Continue, EndDay,
\* with nothing revoked.
C1_Witness ==
    /\ current_state = DAY_ENDED
    /\ Len(actions) = 4
    /\ NoRevokedSnapshot
    /\ [i \in 1..4 |-> actions[i].action_type] = <<START_DAY, STOP, CONTINUE, END_DAY>>
    /\ [i \in 1..4 |-> actions[i].state_after] = <<WORKING, ON_BREAK, WORKING, DAY_ENDED>>

\* C2: a transition requested in a state where it is illegal returns False
\* and leaves the manager, the ledger and the store exactly as they were; in
\* DayEnded none of the four transitions succeeds.
C2_IllegalTransitionIsNoOp ==
    /\ \A d \in Delta :
          /\ current_state # NOT_STARTED =>
                start_day(St, d) = Result(FALSE, St)
          /\ current_state # WORKING =>
                \A bt \in BreakType : stop_work(St, d, bt) = Result(FALSE, St)
          /\ current_state # ON_BREAK =>
                continue_work(St, d) = Result(FALSE, St)
          /\ current_state \in {NOT_STARTED, DAY_ENDED} =>
                end_day(St, d) = Result(FALSE, St)
    /\ current_state = DAY_ENDED =>
          \A a \in Transitions, d \in Delta : ~Transition(St, a, d).ret

\* C2 witness: the day has ended, a ledger and a log exist, and start_day is
\* turned down.
C2_Witness ==
    /\ current_state = DAY_ENDED
    /\ Len(actions) > 0 /\ Len(action_log) > 0
    /\ ~start_day(St, 1).ret

\* Today's action log as the calculator is given it.
SessionLog ==
    IF current_session = None THEN <<>>
    ELSE get_session_actions(action_log, current_session[1].id)

\* A day performed as StartDay, Stop/Continue pairs, EndDay, nothing revoked
\* and every transition of it in the ledger.
CompletedDay ==
    /\ current_state = DAY_ENDED
    /\ NoRevokedSnapshot
    /\ Len(actions) = Len(SessionLog)
    /\ Len(SessionLog) >= 2
    /\ Len(SessionLog) % 2 = 0
    /\ \A i \in 1..Len(SessionLog) :
          SessionLog[i].action_type =
              IF i = 1 THEN START_DAY
              ELSE IF i = Len(SessionLog) THEN END_DAY
              ELSE IF i % 2 = 0 THEN STOP ELSE CONTINUE

\* The sum, in ticks, over the intervals of log opened by an action in Openers
\* and closed by the next action, each interval cut down to a multiple of unit.
RECURSIVE IntervalTicks(_, _, _, _)
IntervalTicks(log, i, Openers, unit) ==
    IF i >= Len(log) THEN 0
    ELSE (IF log[i].action_type \in Openers
            THEN ((log[i + 1].timestamp - log[i].timestamp) \div unit) * unit
            ELSE 0)
         + IntervalTicks(log, i + 1, Openers, unit)

\* C3 as stated: on a completed day total_work_seconds is the sum of the work
\* intervals (Stop or EndDay minus the preceding StartDay or Continue) and
\* total_break_seconds the sum of the break intervals (Continue minus the
\* preceding Stop), as differences of the timestamps.
C3_ExactIntervalSums ==
    CompletedDay =>
        LET calc == get_current_calculations(St, now)
        IN /\ calc.total_work_seconds * TicksPerSecond
                = IntervalTicks(SessionLog, 1, {START_DAY, CONTINUE}, 1)
           /\ calc.total_break_seconds * TicksPerSecond
                = IntervalTicks(SessionLog, 1, {STOP}, 1)

\* C3, amended: on a completed day total_work_seconds is the sum over the work
\* intervals of the whole seconds of each interval (its fraction of a second
\* dropped), and total_break_seconds the same sum over the break intervals.
C3_WholeSecondIntervalSums ==
    CompletedDay =>
        LET calc == get_current_calculations(St, now)
        IN /\ calc.total_work_seconds * TicksPerSecond
                = IntervalTicks(SessionLog, 1, {START_DAY, CONTINUE}, TicksPerSecond)
           /\ calc.total_break_seconds * TicksPerSecond
                = IntervalTicks(SessionLog, 1, {STOP}, TicksPerSecond)

\* C3 witness: StartDay, Stop, Continue, EndDay with more than a minute worked
\* and a work interval that is not a whole number of seconds.
C3_Witness ==
    /\ CompletedDay
    /\ Len(SessionLog) = 4
    /\ get_current_calculations(St, now).total_work_seconds >= SecondsPerMinute
    /\ (SessionLog[2].timestamp - SessionLog[1].timestamp) % TicksPerSecond # 0

\* The snapshots of the given type that are in the ledger.
SnapshotsOf(action_type) ==
    {i \in 1..Len(actions) : actions[i].action_type = action_type}

\* The BreakPeriod rows with the given id.
BreakRows(breaks, break_id) ==
    SelectSeq(breaks, LAMBDA b : b.id = break_id)

\* The BreakPeriod rows with another id.
OtherBreakRows(breaks, break_id) ==
    SelectSeq(breaks, LAMBDA b : b.id # break_id)

\* C4: a successful revoke_action on a Continue snapshot reopens exactly the
\* BreakPeriod this Continue had closed (the row is there with end_time and
\* duration_minutes null, and current_break_id points to it), changes no other
\* BreakPeriod, and leaves current_state OnBreak.
C4_RevokeContinueReopensItsBreak ==
    \A i \in SnapshotsOf(CONTINUE), d \in RevokeDelta :
        LET r == revoke_action(St, actions[i].id, d)
            break_id == snapshot_break_id(actions[i])
        IN r.ret =>
            /\ r.st.current_state = ON_BREAK
            /\ break_id # None =>
                  /\ Len(BreakRows(r.st.break_periods, break_id[1])) = 1
                  /\ BreakRows(r.st.break_periods, break_id[1])[1].end_time = None
                  /\ BreakRows(r.st.break_periods, break_id[1])[1].duration_minutes = None
                  /\ r.st.current_break_id = break_id
                  /\ OtherBreakRows(r.st.break_periods, break_id[1])
                        = OtherBreakRows(break_periods, break_id[1])

\* C5: a successful revoke_action on a Stop snapshot deletes exactly the
\* BreakPeriod this Stop created (the row with the break id the snapshot
\* holds, which is there before and gone after), leaves every other
\* BreakPeriod as it was, clears current_break_id and leaves current_state
\* Working.
C5_RevokeStopDeletesItsBreak ==
    \A i \in SnapshotsOf(STOP), d \in RevokeDelta :
        LET r == revoke_action(St, actions[i].id, d)
            break_id == snapshot_break_id(actions[i])
        IN r.ret =>
            /\ break_id # None
            /\ Len(BreakRows(break_periods, break_id[1])) = 1
            /\ Len(BreakRows(r.st.break_periods, break_id[1])) = 0
            /\ OtherBreakRows(r.st.break_periods, break_id[1])
                  = OtherBreakRows(break_periods, break_id[1])
            /\ r.st.current_break_id = None
            /\ r.st.current_state = WORKING

\* C5 witness: two breaks were taken, the second Stop has been revoked: its
\* row is gone, the first break's row is still there.
C5_Witness ==
    /\ \E i \in SnapshotsOf(STOP) :
          /\ actions[i].revoked
          /\ Len(BreakRows(break_periods, actions[i].break_data[1].break_id)) = 0
          /\ Len(OtherBreakRows(break_periods, actions[i].break_data[1].break_id)) = 1
    /\ current_state = WORKING
    /\ current_break_id = None

\* The entries of the ledger that are not revoked and more recent than entry i.
MoreRecentLive(i) == {j \in (i + 1)..Len(actions) : ~actions[j].revoked}

\* C6: can_revoke_action(id) is True if and only if a snapshot with that id is
\* in the ledger, it is not revoked, and fewer than 5 non-revoked snapshots are
\* more recent than it; so it is False for an id never handed out, for a
\* revoked entry and for the sixth-or-older non-revoked entry.
C6_CanRevokeIffAmongFiveMostRecent ==
    \A id \in KnownIds :
        can_revoke_action(actions, id)
            = (\E i \in 1..Len(actions) :
                  /\ actions[i].id = id
                  /\ ~actions[i].revoked
                  /\ Cardinality(MoreRecentLive(i)) < 5)

\* C6 witness: six live entries; the oldest is sixth and refused, the second
\* oldest is fifth and allowed, an id never handed out is refused.
C6_Witness ==
    /\ Len(actions) = 6
    /\ \A i \in 1..6 : ~actions[i].revoked
    /\ ~can_revoke_action(actions, actions[1].id)
    /\ can_revoke_action(actions, actions[2].id)
    /\ ~can_revoke_action(actions, uuid_seq + 1)

\* C7: after n record_action calls the ledger holds exactly min(n, max_history)
\* snapshots, the most recently recorded ones in insertion order; a snapshot
\* pushed out (the oldest, once max_history + 1 have been inserted) is no
\* longer found by id and can no longer be revoked.
C7_LedgerKeepsMostRecent ==
    /\ Len(actions) = Min(uuid_seq, max_history)
    /\ \A i \in 1..Len(actions) : actions[i].id = uuid_seq - Len(actions) + i
    /\ \A id \in 1..(uuid_seq - max_history) :
          /\ get_action_by_id(actions, id) = None
          /\ ~can_revoke_action(actions, id)
          /\ ~history_revoke_ok(actions, id)
          /\ history_revoke(actions, id, None, now) = actions

\* C7 witness: max_history + 1 snapshots recorded, the first one pushed out.
C7_Witness ==
    /\ max_history = SmallMaxHistory
    /\ uuid_seq = max_history + 1
    /\ Len(actions) = max_history
    /\ get_action_by_id(actions, 1) = None
    /\ get_action_by_id(actions, 2) # None

\* C8: from any lifecycle state a successful reset_day leaves current_state
\* NotStarted, no current_break_id, an empty Action History (the summary has
\* no entry and nothing was recorded for the reset), no ActionLog and no
\* BreakPeriod row of the old session, and exactly one session for today, with
\* an id the old session did not have and null start and end times; start_day
\* then succeeds.
C8_ResetDayStartsAfresh ==
    LET r == reset_day(St)
        old_id == current_session[1].id
    IN (current_session # None /\ r.ret) =>
          /\ r.st.current_state = NOT_STARTED
          /\ r.st.current_break_id = None
          /\ get_history_summary(r.st.actions, DefaultSummaryLimit) = <<>>
          /\ r.st.actions = <<>>
          /\ r.st.uuid_seq = uuid_seq
          /\ \A i \in 1..Len(r.st.action_log) : r.st.action_log[i].session_id # old_id
          /\ \A i \in 1..Len(r.st.break_periods) :
                r.st.break_periods[i].session_id # old_id
          /\ Cardinality(r.st.work_sessions) = 1
          /\ \A row \in r.st.work_sessions :
                /\ row.id # old_id
                /\ row.id \notin {w.id : w \in work_sessions}
                /\ row.start_time = None
                /\ row.end_time = None
                /\ r.st.current_session = Some(row)
          /\ \A d \in Delta :
                /\ start_day(r.st, d).ret
                /\ start_day(r.st, d).st.current_state = WORKING

\* C8 witness: a day with a break was reset: the second session is there
\* alone, not started, the tables and the history are empty, and start_day
\* is accepted.
C8_Witness ==
    /\ session_seq = 2
    /\ current_session # None
    /\ current_session[1].id = 2
    /\ break_seq > 0
    /\ current_state = NOT_STARTED
    /\ actions = <<>>
    /\ action_log = <<>>
    /\ break_periods = <<>>
    /\ start_day(St, 1).ret

\* C9: with p the productive seconds and n the norm in seconds,
\* calculate_all_times gives overtime_seconds = max(0, p - n) and
\* deficit_seconds = remaining_seconds = max(0, n - p), is_overtime exactly
\* when overtime_seconds > 0, and every minute field the floor of its second
\* field over 60; with a norm of 450 minutes, 500 minutes worked give
\* overtime_minutes 50 and deficit_minutes 0, and 300 minutes worked give
\* overtime_minutes 0 and remaining_minutes 150.
C9_OvertimeDeficitAndMinuteFloors ==
    tc_result # None =>
        LET c == tc_result[1]
            p == c.productive_seconds
            n == tc_norm * 60
            IsFloor(m, s) == m * 60 <= s /\ s < m * 60 + 60
        IN /\ c.work_norm_seconds = n
           /\ c.overtime_seconds = Max(0, p - n)
           /\ c.deficit_seconds = Max(0, n - p)
           /\ c.remaining_seconds = Max(0, n - p)
           /\ c.is_overtime = (c.overtime_seconds > 0)
           /\ IsFloor(c.total_work_minutes, c.total_work_seconds)
           /\ IsFloor(c.total_break_minutes, c.total_break_seconds)
           /\ IsFloor(c.productive_minutes, c.productive_seconds)
           /\ IsFloor(c.overtime_minutes, c.overtime_seconds)
           /\ IsFloor(c.deficit_minutes, c.deficit_seconds)
           /\ IsFloor(c.remaining_minutes, c.remaining_seconds)
           /\ IsFloor(c.current_session_minutes, c.current_session_seconds)
           /\ (tc_norm = 450 /\ c.total_work_seconds = 500 * 60) =>
                 (c.overtime_minutes = 50 /\ c.deficit_minutes = 0)
           /\ (tc_norm = 450 /\ c.total_work_seconds = 300 * 60) =>
                 (c.overtime_minutes = 0 /\ c.remaining_minutes = 150)

\* C9 witness: a log with 500 minutes worked, calculated against the norm of
\* 450 minutes: 50 minutes of overtime.
C9_Witness ==
    /\ tc_result # None
    /\ tc_norm = 450
    /\ calculate_work_time(tc_actions) = 500 * 60
    /\ tc_result[1].is_overtime
    /\ tc_result[1].overtime_minutes = 50

\* Clock advances between a state and a get_current_calculations call made
\* in it: none, a fraction of a second, a minute and a fraction.
ReadDelta == {0} \cup Delta

\* The fields of a TimeCalculation that do not describe the running interval.
SettledFields ==
    {"total_work_seconds", "total_break_seconds", "productive_seconds",
     "overtime_seconds", "deficit_seconds", "remaining_seconds",
     "work_norm_seconds", "total_work_minutes", "total_break_minutes",
     "productive_minutes", "overtime_minutes", "deficit_minutes",
     "remaining_minutes", "is_overtime", "work_norm_minutes"}

\* The log ends with a StartDay or a Continue: a work interval is open.
OpenWorkInterval ==
    /\ SessionLog # <<>>
    /\ SessionLog[Len(SessionLog)].action_type \in {START_DAY, CONTINUE}

\* C10 as stated: two get_current_calculations calls with no transition,
\* revoke or reset between them return identical TimeCalculation values in
\* every lifecycle state, also while Working with an open work interval.
C10_RepeatedCalculationsIdentical ==
    \A d1 \in ReadDelta, d2 \in ReadDelta :
        get_current_calculations(St, now + d1) = get_current_calculations(St, now + d2)

\* C10, amended: a call made at once and a second call made any time later
\* (so any two such calls) agree on every field but
\* current_session_seconds and current_session_minutes; these two are the
\* whole seconds (and their whole minutes) from the StartDay or Continue that
\* opened the running work interval to the time of the call, so they agree
\* too when no work interval is open, where they are 0.
C10_RepeatedCalculationsAgreeOnSettledFields ==
    LET c1 == get_current_calculations(St, now)
    IN \A d \in ReadDelta :
        LET c2 == get_current_calculations(St, now + d)
            running == (now + d - SessionLog[Len(SessionLog)].timestamp)
                          \div TicksPerSecond
        IN /\ \A f \in SettledFields : c1[f] = c2[f]
           /\ DOMAIN c2 = SettledFields
                             \cup {"current_session_seconds", "current_session_minutes"}
           /\ c2.current_session_seconds = IF OpenWorkInterval THEN running ELSE 0
           /\ c2.current_session_minutes = c2.current_session_seconds \div 60
           /\ ~OpenWorkInterval => c1 = c2

\* C10 witness: Working after a break, a work interval open, and the second
\* call, made a minute later, returns another current_session_seconds.
C10_Witness ==
    /\ current_state = WORKING
    /\ OpenWorkInterval
    /\ Len(SessionLog) = 3
    /\ get_current_calculations(St, now).total_work_seconds > 0
    /\ \E d \in ReadDelta :
          get_current_calculations(St, now + d).current_session_seconds
              # get_current_calculations(St, now).current_session_seconds

\* The entries recorded before entry i that are not revoked.
PrecedingLive(i) == {j \in 1..(i - 1) : ~actions[j].revoked}

\* The state that preceded entry i: the state_after of the most recent entry
\* before it that is not revoked, Working if there is none.
StatePreceding(i) ==
    IF PrecedingLive(i) = {} THEN WORKING
    ELSE actions[CHOOSE j \in PrecedingLive(i) :
                    \A k \in PrecedingLive(i) : k <= j].state_after

\* Today's row of work_sessions in state st.
SessionRow(st) == CHOOSE row \in st.work_sessions : row.id = st.current_session[1].id

\* C11: a successful revoke_action on the EndDay snapshot clears the session's
\* end_time and puts current_state and the persisted status back to the state
\* that preceded the EndDay (the state_after of the most recent entry before
\* it that is not revoked, Working if there is none); the state is never left
\* DayEnded.
C11_RevokeEndDayRestoresPrecedingState ==
    \A i \in SnapshotsOf(END_DAY), d \in RevokeDelta :
        LET r == revoke_action(St, actions[i].id, d)
        IN r.ret =>
            /\ SessionRow(r.st).end_time = None
            /\ r.st.current_state = StatePreceding(i)
            /\ SessionRow(r.st).status = StatePreceding(i)
            /\ r.st.current_state # DAY_ENDED

\* C12: a successful revoke_action on the StartDay snapshot clears the
\* session's start_time, sets current_state and the persisted status to
\* NotStarted and stops the timer, and start_day can then be performed again.
C12_RevokeStartDayAllowsRestart ==
    \A i \in SnapshotsOf(START_DAY), d \in RevokeDelta :
        LET r == revoke_action(St, actions[i].id, d)
        IN r.ret =>
            /\ SessionRow(r.st).start_time = None
            /\ r.st.current_session[1].start_time = None
            /\ r.st.current_state = NOT_STARTED
            /\ SessionRow(r.st).status = NOT_STARTED
            /\ ~r.st.timer_running
            /\ \A d2 \in Delta :
                  /\ start_day(r.st, d2).ret
                  /\ start_day(r.st, d2).st.current_state = WORKING

\* C12 witness: the StartDay has been revoked: the day is not started, the
\* session has no start_time, the timer is stopped, and start_day is accepted.
C12_Witness ==
    /\ \E i \in SnapshotsOf(START_DAY) : actions[i].revoked
    /\ \A i \in 1..Len(actions) : actions[i].revoked
    /\ current_state = NOT_STARTED
    /\ SessionRow(St).start_time = None
    /\ ~timer_running
    /\ start_day(St, 1).ret

\* The ids of the entries that are not revoked.
LiveIds == {actions[i].id : i \in {j \in 1..Len(actions) : ~actions[j].revoked}}

\* C13: revoke_action(id) for an id that is not in the ledger, is already
\* revoked, or has 5 or more non-revoked entries after it (outside the revoke
\* window) returns False and leaves current_state, current_break_id, every
\* snapshot, the session row, the ActionLog rows and the BreakPeriod rows as
\* they were.
C13_RefusedRevokeIsNoOp ==
    \A id \in KnownIds, d \in RevokeDelta :
        LET entries == {i \in 1..Len(actions) : actions[i].id = id}
            refused == \/ entries = {}
                       \/ \E i \in entries : actions[i].revoked
                       \/ \E i \in entries : Cardinality(MoreRecentLive(i)) >= 5
        IN refused => revoke_action(St, id, d) = Result(FALSE, St)

\* C13 witness: six live entries and a revoked one; revoking the oldest live
\* entry, the revoked entry, and an id never handed out are all refused.
C13_Witness ==
    /\ Cardinality(LiveIds) = 6
    /\ \E i \in 1..Len(actions) :
          actions[i].revoked /\ ~revoke_action(St, actions[i].id, 0).ret
    /\ \E i \in 1..Len(actions) :
          /\ ~actions[i].revoked
          /\ Cardinality(MoreRecentLive(i)) = 5
          /\ ~revoke_action(St, actions[i].id, 0).ret
    /\ ~revoke_action(St, uuid_seq + 1, 0).ret

\* What a transition commits: the fields a failed transition has to leave alone.
Committed(st) ==
    <<st.action_log, st.break_periods, st.work_sessions, st.current_state,
      st.current_break_id, st.actions>>

\* The four transitions' try blocks run from the current state while the store
\* methods in faults raise.
TransitionBodies(faults) ==
    UNION {{start_day_body(St, d, faults), stop_work_body(St, d, COFFEE, faults),
            continue_work_body(St, d, faults), end_day_body(St, d, faults)} :
           d \in Delta}

\* C14: when a store call raises inside start_day, stop_work, continue_work or
\* end_day, the call returns False and the action log, the break periods, the
\* session row, current_state, current_break_id and the ledger are what they
\* were before the call.
C14_FailedTransitionCommitsNothing ==
    \A faults \in FaultSets :
        \A o \in TransitionBodies(faults) :
            o.raised => /\ except_return_false(o).ret = FALSE
                        /\ Committed(except_return_false(o).st) = Committed(St)

\* What a revoke has to put back: the session row, the break periods, the
\* lifecycle state and the open break.
Reversed(st) ==
    <<st.work_sessions, st.break_periods, st.current_state, st.current_break_id>>

\* The ledger of st has the entry id flagged as revoked.
MarkedRevoked(st, id) ==
    /\ get_action_by_id(st.actions, id) # None
    /\ get_action_by_id(st.actions, id)[1].revoked

\* C15: when a store call fails inside revoke_action after the eligibility
\* check, the call returns False, and the entry is flagged as revoked only if
\* the session row, the break periods, current_state and current_break_id are
\* what the revoke without the failure leaves.
C15_FailedRevokeNotHalfRevoked ==
    \A faults \in FaultSets : \A id \in KnownIds : \A d \in RevokeDelta :
        LET o == revoke_action_with_faults(St, id, d, faults)
            ok == revoke_action(St, id, d)
        IN o # Returned(ok.ret, ok.st)
             => /\ o.ret = FALSE
                /\ MarkedRevoked(o.st, id) => Reversed(o.st) = Reversed(ok.st)

\* The break periods of the current session that have no end_time.
OpenBreaks ==
    IF current_session = None THEN {}
    ELSE LET rows == get_session_breaks(break_periods, current_session[1].id)
         IN {i \in 1..Len(rows) : rows[i].end_time = None}

\* C16: whatever transitions and successful revokes led here, at most one
\* break period of the current session has no end_time.
C16_AtMostOneOpenBreak == Cardinality(OpenBreaks) <= 1

\* The four transitions called in the current state, the clock d ticks on.
TransitionResults ==
    UNION {{start_day(St, d), stop_work(St, d, COFFEE), continue_work(St, d),
            end_day(St, d)} : d \in Delta}

\* C17: after a transition that returned True, the status column of the session
\* row is current_state, and a manager constructed on the same store starts in
\* the state this one is in.
C17_PersistedStatusIsCurrentState ==
    \A r \in TransitionResults :
        r.ret => /\ SessionRow(r.st).status = r.st.current_state
                 /\ load_todays_session(r.st).current_state = r.st.current_state

\* A backup written as text: enum values and ISO timestamps.
TextBackup(hist) ==
    [i \in 1..Len(hist) |->
        [hist[i] EXCEPT
            !.action_type = PyStr(@),
            !.state_before = PyStr(@),
            !.state_after = PyStr(@),
            !.timestamp = PyIsoStr(@),
            !.revoke_timestamp = IF @ = None THEN None ELSE Some(PyIsoStr(@[1]))]]

\* A backup whose first entry names an action type that does not exist.
DamagedBackup(hist) ==
    [i \in 1..Len(hist) |->
        IF i = 1 THEN [TextBackup(hist)[i] EXCEPT !.action_type = PyStr("pause")]
        ELSE TextBackup(hist)[i]]

\* The history_data import_history is given.
ImportInputs == {TextBackup(actions), DamagedBackup(actions), export_history(actions)}

\* C18: whichever store method raises and whatever history_data is given, no
\* exception leaves start_day, stop_work, continue_work, end_day, reset_day,
\* revoke_action, get_current_calculations or import_history.
C18_NoExceptionEscapes ==
    \A faults \in FaultSets :
        /\ \A d \in Delta :
              /\ ~start_day_with_faults(St, d, faults).raised
              /\ ~stop_work_with_faults(St, d, COFFEE, faults).raised
              /\ ~continue_work_with_faults(St, d, faults).raised
              /\ ~end_day_with_faults(St, d, faults).raised
        /\ ~reset_day_with_faults(St, faults).raised
        /\ \A id \in KnownIds : \A d \in RevokeDelta :
              ~revoke_action_with_faults(St, id, d, faults).raised
        /\ ~get_current_calculations_with_faults(St, now, faults).raised
        /\ \A history_data \in ImportInputs :
              ~import_history(actions, history_data).raised

\* What does hold: the six state-changing operations catch every store
\* failure, a text backup is imported as the ledger it was written from, and
\* the other two backups make import_history raise.
StateChangingOperationsCatch ==
    \A faults \in FaultSets :
        /\ \A d \in Delta :
              /\ ~start_day_with_faults(St, d, faults).raised
              /\ ~stop_work_with_faults(St, d, COFFEE, faults).raised
              /\ ~continue_work_with_faults(St, d, faults).raised
              /\ ~end_day_with_faults(St, d, faults).raised
        /\ ~reset_day_with_faults(St, faults).raised
        /\ \A id \in KnownIds : \A d \in RevokeDelta :
              ~revoke_action_with_faults(St, id, d, faults).raised
        /\ import_history(actions, TextBackup(actions)) = Returned(None, actions)
        /\ actions # <<>> => import_history(actions, export_history(actions)).raised
        /\ actions # <<>> => import_history(actions, DamagedBackup(actions)).raised

\* Undo everything: revoke_action on get_last_action() until the ledger has
\* no live entry or a revoke returns False.
RECURSIVE RevokeAllMostRecentFirst(_)
RevokeAllMostRecentFirst(s) ==
    IF get_last_action(s.actions) = None THEN Result(TRUE, s)
    ELSE LET r == revoke_action(s, get_last_action(s.actions)[1].id, 0)
         IN IF r.ret THEN RevokeAllMostRecentFirst(r.st) ELSE Result(FALSE, r.st)

\* The state a manager has before the day starts.
RolledBackToStart(st) ==
    LET calc == get_current_calculations(st, st.now)
    IN /\ st.current_state = NOT_STARTED
       /\ get_session_breaks(st.break_periods, st.current_session[1].id) = <<>>
       /\ SessionRow(st).start_time = None
       /\ SessionRow(st).end_time = None
       /\ st.current_break_id = None
       /\ calc.total_work_seconds = 0
       /\ calc.total_break_seconds = 0

\* C19: after at most 5 transitions from NotStarted and no revoke, revoking
\* the recorded actions one by one, the most recent first, returns True every
\* time and ends in NotStarted with no break period, no start_time, no
\* end_time, no current break and zero work and break seconds.
C19_RevokingEverythingRollsBackToStart ==
    (NoRevokedSnapshot /\ Len(actions) <= RevokeWindow)
        => /\ RevokeAllMostRecentFirst(St).ret
           /\ RolledBackToStart(RevokeAllMostRecentFirst(St).st)

\* C19 witness: five transitions were made, the last one EndDay after a second
\* break, nothing is revoked yet, and undoing all five rolls back to the start.
C19_Witness ==
    /\ NoRevokedSnapshot
    /\ Len(actions) = RevokeWindow
    /\ current_state = DAY_ENDED
    /\ Len(break_periods) = 2
    /\ RevokeAllMostRecentFirst(St).ret
    /\ RolledBackToStart(RevokeAllMostRecentFirst(St).st)

\* The durations break periods were closed with.
StoredBreakDurations ==
    {break_periods[i].duration_minutes[1] :
        i \in {j \in 1..Len(break_periods) : break_periods[j].duration_minutes # None}}

\* C20: whatever order the timestamps of the action log and the break list
\* are in, total_work_seconds, total_break_seconds and current_session_seconds
\* are at least 0, and so is every break duration continue_work or end_day
\* stored.
C20_NoNegativeDuration ==
    /\ \A d \in SkewDelta :
          LET calc == get_current_calculations(St, now + d)
          IN /\ calc.total_work_seconds >= 0
             /\ calc.total_break_seconds >= 0
             /\ calc.current_session_seconds >= 0
    /\ \A m \in StoredBreakDurations : m >= 0

\* The parts of C20 one by one.
WorkSecondsNotNegative == get_current_calculations(St, now).total_work_seconds >= 0
BreakSecondsNotNegative == get_current_calculations(St, now).total_break_seconds >= 0
SessionSecondsNotNegative ==
    \A d \in SkewDelta : get_current_calculations(St, now + d).current_session_seconds >= 0
StoredDurationsNotNegative == \A m \in StoredBreakDurations : m >= 0
ContinueStoresNoNegativeDuration ==
    \A d \in SkewDelta :
        LET r == continue_work(St, d)
        IN r.ret /\ current_break_id # None
             => find_break(r.st.break_periods, current_session[1].id,
                           current_break_id[1])[1].duration_minutes[1] >= 0

\* The operation of an action type called in the current state returns True;
\* the REVOKE_* types have no operation.
OperationSucceeds(action_type) ==
    \E d \in Delta :
        CASE action_type = START_DAY -> start_day(St, d).ret
          [] action_type = STOP -> stop_work(St, d, COFFEE).ret
          [] action_type = CONTINUE -> continue_work(St, d).ret
          [] action_type = END_DAY -> end_day(St, d).ret
          [] OTHER -> FALSE

\* C21: for every action type, the REVOKE_* ones included,
\* can_perform_action is True exactly when the operation of that type returns
\* True in the current state, and for every state it gives what
\* validate_state_transition gives.
C21_CanPerformAgreesWithOperationsAndValidator ==
    \A a \in ActionType :
        /\ can_perform_action(St, a) <=> OperationSucceeds(a)
        /\ \A state \in WorklogState :
              can_perform_action([St EXCEPT !.current_state = state], a)
                  <=> validate_state_transition(state, a)[1]

\* C21 witness: on a break, ending the day is allowed by the query, by the
\* validator and by end_day itself, and stopping again is refused by all three.
C21_Witness ==
    /\ current_state = ON_BREAK
    /\ can_perform_action(St, END_DAY) /\ OperationSucceeds(END_DAY)
    /\ validate_state_transition(ON_BREAK, END_DAY)[1]
    /\ ~can_perform_action(St, STOP) /\ ~OperationSucceeds(STOP)
    /\ ~validate_state_transition(ON_BREAK, STOP)[1]

\* The ids of the break periods with no end_time.
OpenBreakIds(breaks) == {breaks[i].id : i \in {j \in 1..Len(breaks) : breaks[j].end_time = None}}

\* The ids of all break periods.
BreakIds(breaks) == {breaks[i].id : i \in 1..Len(breaks)}

\* The transition of the given type, called from the current state, wrote one
\* action log row and one snapshot, both of that type, the snapshot with the
\* states before and after the call.
RecordedInLockstep(action_type, r) ==
    LET snap == r.st.actions[Len(r.st.actions)]
        row == r.st.action_log[Len(r.st.action_log)]
    IN /\ Len(r.st.action_log) = Len(action_log) + 1
       /\ SubSeq(r.st.action_log, 1, Len(action_log)) = action_log
       /\ row.action_type = action_type
       /\ Len(r.st.actions) = Len(actions) + 1
       /\ SubSeq(r.st.actions, 1, Len(actions)) = actions
       /\ snap.action_type = action_type
       /\ snap.state_before = current_state
       /\ snap.state_after = r.st.current_state
       /\ ~snap.revoked

\* The Stop snapshot names the one break period the call created.
StopSnapshotNamesCreatedBreak(r) ==
    LET snap == r.st.actions[Len(r.st.actions)]
    IN /\ snapshot_break_id(snap) # None
       /\ BreakIds(r.st.break_periods) \ BreakIds(break_periods)
             = {snapshot_break_id(snap)[1]}

\* The Continue snapshot names the one break period the call closed.
ContinueSnapshotNamesClosedBreak(r) ==
    LET snap == r.st.actions[Len(r.st.actions)]
    IN /\ snapshot_break_id(snap) # None
       /\ OpenBreakIds(break_periods) \ OpenBreakIds(r.st.break_periods)
             = {snapshot_break_id(snap)[1]}

\* C22: each transition that returns True appends one action log row and one
\* snapshot of the action's type with the states before and after the call; a
\* Stop snapshot carries the id of the break period the call created and a
\* Continue snapshot the id of the break period the call closed.
C22_TransitionsRecordedInLockstep ==
    \A a \in Transitions, d \in Delta :
        LET r == Transition(St, a, d)
        IN r.ret => /\ RecordedInLockstep(a, r)
                    /\ a = STOP => StopSnapshotNamesCreatedBreak(r)
                    /\ a = CONTINUE => ContinueSnapshotNamesClosedBreak(r)

\* The parts of C22 one by one.
EveryTransitionRecordedInLockstep ==
    \A a \in Transitions, d \in Delta :
        Transition(St, a, d).ret => RecordedInLockstep(a, Transition(St, a, d))
EveryStopSnapshotNamesItsBreak ==
    \A d \in Delta :
        stop_work(St, d, COFFEE).ret
            => StopSnapshotNamesCreatedBreak(stop_work(St, d, COFFEE))
ContinueWithoutRevokesNamesItsBreak ==
    \A d \in Delta :
        (NoRevokedSnapshot /\ continue_work(St, d).ret)
            => ContinueSnapshotNamesClosedBreak(continue_work(St, d))

\* The action log rows whose revoked flag differs between two logs of the
\* same length.
FlagChanged(log_before, log_after) ==
    {i \in 1..Len(log_before) : log_after[i].revoked # log_before[i].revoked}

\* The action log row the transition of a snapshot wrote: the row of the
\* snapshot's type stamped with the snapshot's clock reading.
RowOfSnapshot(log, action) ==
    {i \in 1..Len(log) : /\ log[i].action_type = action.action_type
                         /\ log[i].timestamp = action.timestamp}

\* C23: a revoke_action that returns True flags exactly one action log row,
\* the one written by the transition that recorded the revoked snapshot, and
\* changes the flag of no other row, also when another action of the same type
\* lies within 5 seconds.
C23_RevokeFlagsItsOwnRow ==
    \A i \in 1..Len(actions), d \in RevokeDelta :
        LET r == revoke_action(St, actions[i].id, d)
        IN r.ret => /\ Len(r.st.action_log) = Len(action_log)
                    /\ FlagChanged(action_log, r.st.action_log)
                          = RowOfSnapshot(action_log, actions[i])

\* The part of C23 that holds when no other live row of the same type lies
\* within the tolerance.
RevokeFlagsItsOwnRowWhenAlone ==
    \A i \in 1..Len(actions), d \in RevokeDelta :
        LET r == revoke_action(St, actions[i].id, d)
            near == {k \in 1..Len(action_log) :
                        /\ action_log[k].action_type = actions[i].action_type
                        /\ ~action_log[k].revoked
                        /\ AbsVal(action_log[k].timestamp - actions[i].timestamp)
                              < MatchToleranceSeconds * TicksPerSecond}
        IN (r.ret /\ Cardinality(near) = 1 /\ near = RowOfSnapshot(action_log, actions[i]))
              => FlagChanged(action_log, r.st.action_log) = near

\* The entry as ActionHistory.revoke_action(id, notes) at clock reading clock
\* has to leave it: flagged and stamped, and nothing else changed.
FlaggedAndStamped(action, clock) ==
    [action EXCEPT !.revoked = TRUE, !.revoke_timestamp = Some(clock)]

\* The same with the notes given appended to the entry's notes.
FlaggedStampedAndNoted(action, notes, clock) ==
    [FlaggedAndStamped(action, clock) EXCEPT
        !.notes = IF notes # None THEN Some(<<@, "Revoked", notes[1]>>) ELSE @]

\* A refused ledger revoke changes nothing; an accepted one replaces the entry
\* of that id by Expected of it, leaves every other entry and the order alone,
\* and is refused when asked again.
LedgerRevokeLeaves(id, notes, clock, expected) ==
    LET after == history_revoke(actions, id, notes, clock)
    IN IF get_action_by_id(actions, id) = None
            \/ get_action_by_id(actions, id)[1].revoked
         THEN ~history_revoke_ok(actions, id) /\ after = actions
       ELSE /\ history_revoke_ok(actions, id)
            /\ Len(after) = Len(actions)
            /\ \A j \in 1..Len(actions) :
                  after[j] = IF actions[j].id = id THEN expected ELSE actions[j]
            /\ ~history_revoke_ok(after, id)

\* The ledgers one more record_action or revoke_action call can leave.
NextLedgers ==
    {history_revoke(actions, id, notes, now + d) :
        id \in KnownIds, notes \in RevokeNotes, d \in HistDelta}
    \cup {record_action(actions, max_history, uuid_seq + 1, now + d,
                        k[1], k[2], k[3], None, None, None, None) :
            k \in RecordedKinds, d \in HistDelta}

\* Every flagged entry that one more call leaves in the ledger is still
\* flagged.
RevokedStaysRevoked ==
    \A after \in NextLedgers :
        \A j \in 1..Len(actions) : \A k \in 1..Len(after) :
            (actions[j].revoked /\ after[k].id = actions[j].id) => after[k].revoked

RowsKept(log_before, log_after) ==
    /\ Len(log_after) >= Len(log_before)
    /\ \A i \in 1..Len(log_before) :
          /\ [log_after[i] EXCEPT !.revoked = FALSE]
                = [log_before[i] EXCEPT !.revoked = FALSE]
          /\ log_before[i].revoked => log_after[i].revoked

\* The action log with the rows flagged revoked deleted.
LiveRows(log) == SelectSeq(log, LAMBDA r : ~r.revoked)

\* C25: no transition and no revoke deletes an action log row or changes
\* anything in it but the revoked flag; a revoke appends no row and only sets
\* flags; reset_day is what removes the session's rows; and the time
\* calculations are what they would be with the flagged rows deleted.
C25_ActionLogRowsImmutableButFlag ==
    /\ \A a \in Transitions, d \in Delta :
          RowsKept(action_log, Transition(St, a, d).st.action_log)
    /\ \A id \in KnownIds, d \in RevokeDelta :
          LET r == revoke_action(St, id, d)
          IN /\ RowsKept(action_log, r.st.action_log)
             /\ Len(r.st.action_log) = Len(action_log)
    /\ get_session_actions(reset_day(St).st.action_log, current_session[1].id) = <<>>
    /\ \A d \in ReadDelta :
          get_current_calculations(St, now + d)
              = get_current_calculations([St EXCEPT !.action_log = LiveRows(@)], now + d)

\* C25 witness: the log holds a flagged Stop row between live rows, and the
\* work time counts up to the EndDay as if the Stop row were not there, which
\* is more than the scan of all three rows gives.
C25_Witness ==
    /\ Len(action_log) = 3
    /\ action_log[1].action_type = START_DAY /\ ~action_log[1].revoked
    /\ action_log[2].action_type = STOP /\ action_log[2].revoked
    /\ action_log[3].action_type = END_DAY /\ ~action_log[3].revoked
    /\ get_current_calculations(St, now).total_work_seconds
          = WholeSeconds(action_log[3].timestamp - action_log[1].timestamp)
    /\ get_current_calculations(St, now).total_work_seconds
          > calculate_work_time(action_log)

\* The session row of st holds the totals calculated from st's action log and
\* break periods.
TotalsPersisted(st) ==
    LET calc == get_current_calculations(st, st.now)
        row == SessionRow(st)
    IN /\ row.total_work_minutes = calc.total_work_minutes
       /\ row.total_break_minutes = calc.total_break_minutes
       /\ row.productive_minutes = calc.productive_minutes
       /\ row.overtime_minutes = calc.overtime_minutes

\* The session of st is closed: end_time set, status DAY_ENDED, an END_DAY row
\* last in the log.
SessionClosed(st) ==
    /\ SessionRow(st).end_time = Some(st.now)
    /\ SessionRow(st).status = DAY_ENDED
    /\ st.current_state = DAY_ENDED
    /\ st.action_log[Len(st.action_log)].action_type = END_DAY
    /\ ~st.action_log[Len(st.action_log)].revoked

\* No break period of the session of st is open.
NoOpenBreak(st) ==
    \A b \in {st.break_periods[i] : i \in 1..Len(st.break_periods)} :
        b.session_id = st.current_session[1].id => b.end_time # None

\* C26: after an end_day that returns True, whatever transitions and revokes
\* came before, no break period of the session is open, the session has its
\* end_time and the status DayEnded, and the four persisted totals are those
\* calculated from the action log with the EndDay row in it.
C26_EndDayClosesSession ==
    \A d \in Delta :
        LET r == end_day(St, d)
        IN r.ret => /\ NoOpenBreak(r.st)
                    /\ SessionClosed(r.st)
                    /\ TotalsPersisted(r.st)

\* The parts of C26 that hold in every state.
EndDayClosesSessionAndPersistsTotals ==
    \A d \in Delta :
        LET r == end_day(St, d)
        IN r.ret => SessionClosed(r.st) /\ TotalsPersisted(r.st)
EndDayClosesBreaksWithoutRevokes ==
    \A d \in Delta :
        (NoRevokedSnapshot /\ end_day(St, d).ret) => NoOpenBreak(end_day(St, d).st)

\* The durations of a TimeCalculation that C27 names are all zero.
AllZero(calc) ==
    /\ calc.total_work_seconds = 0 /\ calc.total_work_minutes = 0
    /\ calc.total_break_seconds = 0 /\ calc.total_break_minutes = 0
    /\ calc.productive_seconds = 0 /\ calc.productive_minutes = 0
    /\ calc.overtime_seconds = 0 /\ calc.overtime_minutes = 0
    /\ calc.deficit_seconds = 0 /\ calc.deficit_minutes = 0
    /\ calc.remaining_seconds = 0 /\ calc.remaining_minutes = 0
    /\ calc.current_session_seconds = 0 /\ calc.current_session_minutes = 0
    /\ ~calc.is_overtime

\* C27: with no action and no break period, calculate_all_times, and
\* get_current_calculations on a session with an empty log, give zero for total
\* work, total break, productive, overtime, deficit, remaining and current
\* session time, and is_overtime false.
C27_EmptyLogGivesAllZero ==
    /\ (tc_actions = <<>> /\ tc_breaks = <<>> /\ tc_result # None)
          => AllZero(tc_result[1])
    /\ (action_log = <<>> /\ break_periods = <<>>)
          => AllZero(get_current_calculations(St, now))

\* What the empty log does give: zero everywhere but in deficit and remaining,
\* which are the whole work norm.
EmptyLogGivesZeroButDeficit ==
    (tc_actions = <<>> /\ tc_breaks = <<>> /\ tc_result # None)
        => /\ AllZero([tc_result[1] EXCEPT
                          !.deficit_seconds = 0, !.deficit_minutes = 0,
                          !.remaining_seconds = 0, !.remaining_minutes = 0])
           /\ tc_result[1].deficit_seconds = tc_norm * SecondsPerMinute
           /\ tc_result[1].remaining_seconds = tc_norm * SecondsPerMinute
           /\ tc_result[1].deficit_minutes = tc_norm
           /\ tc_result[1].remaining_minutes = tc_norm

\* The open-start marker when row i of a log is reached: the timestamp of
\* the nearest logged action before it if that is a StartDay or a Continue
\* (a later one has overwritten an earlier one), none after a Stop or an
\* EndDay (which cleared it or found none) and at the start of the log.
MarkerAt(log, i) ==
    LET before == {j \in 1..(i - 1) : log[j].action_type \in LoggedActionTypes}
        j == CHOOSE k \in before : \A l \in before : l <= k
    IN IF before = {} THEN None
       ELSE IF log[j].action_type \in {START_DAY, CONTINUE} THEN Some(log[j].timestamp)
       ELSE None

\* What the marker scan adds at row i, in ticks, each addition cut down to a
\* multiple of unit: nothing unless the row is a Stop or an EndDay that finds
\* a marker.
MarkerScanAdds(log, i, unit) ==
    IF log[i].action_type \in {STOP, END_DAY} /\ MarkerAt(log, i) # None
      THEN ((log[i].timestamp - MarkerAt(log, i)[1]) \div unit) * unit
      ELSE 0

RECURSIVE MarkerScanTicks(_, _, _)
MarkerScanTicks(log, n, unit) ==
    IF n = 0 THEN 0
    ELSE MarkerScanAdds(log, n, unit) + MarkerScanTicks(log, n - 1, unit)

\* C28 as stated: for any action log, a legal sequence or not,
\* calculate_work_time is the total of the marker scan, in which a StartDay
\* or a Continue sets the marker (overwriting one that is set), a Stop or an
\* EndDay that finds a marker adds the timestamp minus the marker and clears
\* it, and a Stop or an EndDay that finds none adds nothing.
C28_WorkTimeIsMarkerScan ==
    /\ calculate_work_time(tc_actions) * TicksPerSecond
         = MarkerScanTicks(tc_actions, Len(tc_actions), 1)
    /\ tc_result # None =>
         tc_result[1].total_work_seconds * TicksPerSecond
           = MarkerScanTicks(tc_actions, Len(tc_actions), 1)

\* C28, amended: the same marker scan, where a Stop or an EndDay that finds
\* a marker adds the whole seconds of the timestamp minus the marker, the
\* fraction of a second of each addition dropped.
C28_WorkTimeIsWholeSecondMarkerScan ==
    /\ calculate_work_time(tc_actions) * TicksPerSecond
         = MarkerScanTicks(tc_actions, Len(tc_actions), TicksPerSecond)
    /\ tc_result # None =>
         tc_result[1].total_work_seconds * TicksPerSecond
           = MarkerScanTicks(tc_actions, Len(tc_actions), TicksPerSecond)

\* C28 witness: calculate_all_times has run on the log Stop, StartDay,
\* EndDay, which no sequence of transitions writes; the Stop finds no marker
\* and adds nothing, and the 300 minutes to the EndDay are the work time.
C28_Witness ==
    /\ tc_result # None
    /\ Len(tc_actions) = 3
    /\ tc_actions[1].action_type = STOP
    /\ tc_actions[2].action_type = START_DAY
    /\ tc_actions[3].action_type = END_DAY
    /\ MarkerAt(tc_actions, 1) = None
    /\ tc_result[1].total_work_seconds
         = 300 * SecondsPerMinute

\* A marker is overwritten: StartDay, Continue, Stop counts the time from
\* the Continue only.
MarkerOverwritten ==
    /\ tc_result # None
    /\ Len(tc_actions) = 3
    /\ tc_actions[1].action_type = START_DAY
    /\ tc_actions[2].action_type = CONTINUE
    /\ tc_actions[3].action_type = STOP
    /\ tc_result[1].total_work_seconds
         = WholeSeconds(tc_actions[3].timestamp - tc_actions[2].timestamp)
    /\ tc_result[1].total_work_seconds
         < WholeSeconds(tc_actions[3].timestamp - tc_actions[1].timestamp)

\* The rows of a log that are a StartDay, a Stop, a Continue or an EndDay.
RelevantRows(log) == {i \in 1..Len(log) : log[i].action_type \in LoggedActionTypes}

\* The most recent relevant row of a log that has one.
LastRelevant(log) == CHOOSE i \in RelevantRows(log) : \A j \in RelevantRows(log) : j <= i

\* calculate_current_session_time of the session's log at every clock reading
\* a call can see, as ticks cut down to a multiple of unit.
CurrentSessionTimeIs(unit) ==
    \A d \in ReadDelta :
        LET clock == now + d
            seconds == calculate_current_session_time(SessionLog, clock)
        IN /\ seconds * TicksPerSecond =
                IF RelevantRows(SessionLog) = {} THEN 0
                ELSE IF SessionLog[LastRelevant(SessionLog)].action_type \in {STOP, END_DAY}
                  THEN 0
                ELSE ((clock - SessionLog[LastRelevant(SessionLog)].timestamp) \div unit) * unit
           /\ get_current_calculations(St, clock).current_session_seconds = seconds

\* After transitions without revokes the current session time is not 0 only
\* in Working.
NonZeroOnlyWhileWorking ==
    NoRevokedSnapshot =>
        \A d \in ReadDelta :
            calculate_current_session_time(SessionLog, now + d) # 0
                => current_state = WORKING

\* C29 as stated: calculate_current_session_time is now minus the timestamp
\* of the most recent StartDay or Continue when no Stop or EndDay follows it
\* in the log, and 0 when the most recent relevant action is a Stop or an
\* EndDay or the log is empty; after legal transitions without revokes it is
\* not 0 only while current_state is Working.
C29_CurrentSessionTimeIsNowMinusLastStart ==
    CurrentSessionTimeIs(1) /\ NonZeroOnlyWhileWorking

\* C29, amended: the same, with the whole seconds of now minus the timestamp
\* (the fraction of a second dropped) where the log ends in a StartDay or a
\* Continue; so it is 0 as well during the first second of a work interval.
C29_CurrentSessionTimeIsWholeSecondsSinceLastStart ==
    CurrentSessionTimeIs(TicksPerSecond) /\ NonZeroOnlyWhileWorking

\* C29 witness: Working after StartDay, Stop, Continue with nothing revoked,
\* and a call made more than a second and a fraction of a second after the
\* Continue.
C29_Witness ==
    /\ NoRevokedSnapshot
    /\ current_state = WORKING
    /\ Len(SessionLog) = 3
    /\ SessionLog[3].action_type = CONTINUE
    /\ \E d \in ReadDelta :
          /\ calculate_current_session_time(SessionLog, now + d) > 0
          /\ (now + d - SessionLog[3].timestamp) % TicksPerSecond # 0

\* C30: export followed by import is the identity on the ledger:
\* import_history(export_history()) returns and leaves the same snapshots in
\* the same order, with the same ids, action types, states, timestamps and
\* revoked flags.
C30_ExportThenImportIsIdentity ==
    LET imported == import_history(actions, export_history(actions))
    IN ~imported.raised /\ imported.st = actions

\* What does hold: import_history raises on what export_history returns for
\* a ledger that is not empty, the ledger staying as it was, and a backup
\* with the enum values and the ISO text of the timestamps is imported as
\* the ledger it was written from.
ExportedLedgerIsNotImported ==
    /\ import_history(actions, export_history(actions))
         = IF actions = <<>> THEN Returned(None, <<>>) ELSE Raised(actions)
    /\ import_history(<<>>, TextBackup(actions)) = Returned(None, actions)

\* A tick of the timer loop: a step in which a thread that runs moves on and
\* no thread is started.
TimerTick ==
    /\ Len(timer_threads') = Len(timer_threads)
    /\ timer_threads' # timer_threads

\* Thread i goes on from the if test to the call of the callback.
DecidesToCall(i) ==
    /\ i \in 1..Len(timer_threads)
    /\ timer_threads[i].pc = "if"
    /\ timer_threads'[i].pc = "call"

\* C31: a tick of the timer loop leaves current_state, current_session,
\* current_break_id, the Action History and every session, ActionLog and
\* BreakPeriod row as they are, and it goes on to call the callback only when
\* a callback is set and current_state is Working as the tick tests it.
C31_TickLeavesCoreStateAlone ==
    /\ [][TimerTick => UNCHANGED <<mgr_vars, hist_vars>>]_vars
    /\ [][\A i \in 1..MaxThreads :
             DecidesToCall(i) => timer_callback /\ current_state = WORKING]_vars

\* C31 witness: the day is started and a thread, having found the flag set
\* and the state Working, is at the call of the callback.
C31_Witness ==
    /\ current_state = WORKING
    /\ action_log # <<>>
    /\ \E i \in 1..Len(timer_threads) : timer_threads[i].pc = "call"

\* Thread i calls the callback.
InvokesCallback(i) ==
    /\ i \in 1..Len(timer_threads)
    /\ timer_threads[i].pc = "call"
    /\ timer_threads'[i].pc = "sleep"

\* Every thread started has returned from _timer_loop.
AllReturned == \A i \in 1..Len(timer_threads) : ~is_alive(timer_threads[i])

\* With the flag cleared, every thread returns unless start_timer sets the
\* flag again.
TimerLoopExitsOnceStopped == ~timer_running ~> (AllReturned \/ timer_running)

\* C32: once stop_timer has cleared the flag and while start_timer has not
\* set it again, the callback is not invoked, and under fair scheduling of
\* the threads the timer loop exits.
C32_StoppedTimerNeverCallsBack ==
    /\ [][\A i \in 1..MaxThreads : InvokesCallback(i) => timer_running]_vars
    /\ TimerLoopExitsOnceStopped

\* A thread calls the callback with the flag cleared only when it is past
\* the while test, and the next while test makes it return: one late call
\* for each thread at most.
LateCallThenReturn ==
    /\ [][\A i \in 1..Len(timer_threads) :
             (timer_threads[i].pc = "while" /\ ~timer_running
                /\ i \in 1..Len(timer_threads')
                /\ timer_threads'[i] # timer_threads[i])
               => ~is_alive(timer_threads'[i])]_vars
    /\ TimerLoopExitsOnceStopped

\* The threads that have not returned from _timer_loop.
AliveThreads == {i \in 1..Len(timer_threads) : is_alive(timer_threads[i])}

\* C33: under every interleaving of start_timer and stop_timer calls with
\* the timer loop, at most one timer-loop thread is alive at a time.
C33_AtMostOneTimerThread == Cardinality(AliveThreads) <= 1

\* C34: after any transitions, revokes and resets the timer is running
\* whenever current_state is Working, and it is stopped whenever current_state
\* is NotStarted or DayEnded.
C34_TimerRunsExactlyWhileWorking ==
    /\ current_state = WORKING => timer_running
    /\ current_state \in {NOT_STARTED, DAY_ENDED} => ~timer_running

\* The timer is stopped in NotStarted and in DayEnded.
TimerStoppedOutsideTheDay == current_state \in {NOT_STARTED, DAY_ENDED} => ~timer_running

\* With nothing revoked the timer is running in Working.
TimerRunsWhileWorkingWithoutRevokes ==
    NoRevokedSnapshot /\ current_state = WORKING => timer_running

\* The snapshots of the ledger that are not revoked, oldest first.
LiveSnapshots == SelectSeq(actions, LAMBDA a : ~a.revoked)

\* The state the ledger stands for: the state_after of the most recent
\* snapshot that is not revoked, NotStarted when there is none.
StateOfLedger ==
    IF LiveSnapshots = <<>> THEN NOT_STARTED
    ELSE LiveSnapshots[Len(LiveSnapshots)].state_after

\* C35: after any transitions and successful revokes, the snapshots that
\* are not revoked, oldest first, are a legal transition sequence from
\* NotStarted (validate_action_sequence accepts them), and current_state is
\* the state_after of the most recent of them, NotStarted when there is none.
C35_LedgerIsLegalAndEndsInCurrentState ==
    /\ validate_action_sequence(actions)
    /\ validate_action_sequence(LiveSnapshots)
    /\ current_state = StateOfLedger

\* With nothing revoked the ledger is a legal sequence that ends in
\* current_state.
LedgerLegalWithoutRevokes ==
    NoRevokedSnapshot =>
        /\ validate_action_sequence(actions)
        /\ current_state = StateOfLedger

\* current_state is OnBreak exactly when current_break_id is set, and it
\* then names a break period of the current session with no end_time; in any
\* other state the session has no break period without end_time.
BreakIdMatchesState ==
    LET rows == get_session_breaks(break_periods, current_session[1].id)
        open == {i \in 1..Len(rows) : rows[i].end_time = None}
    IN /\ current_state = ON_BREAK <=> current_break_id # None
       /\ current_state = ON_BREAK =>
            \E i \in open : rows[i].id = current_break_id[1]
       /\ current_state # ON_BREAK => open = {}

\* C36: in every state reached by transitions and successful revokes,
\* current_state is OnBreak if and only if current_break_id is set, it then
\* identifies a break period of the current session whose end_time is null,
\* and when current_state is not OnBreak the session has no open break period.
C36_OnBreakIffOpenBreakIdentified == BreakIdMatchesState

\* With nothing revoked the break id and the open break follow the state.
BreakIdMatchesStateWithoutRevokes == NoRevokedSnapshot => BreakIdMatchesState

\* A completed day, ended from Working or from a break: StartDay first,
\* EndDay last, nothing revoked and every transition of it in the ledger.
DayEndedEitherWay ==
    /\ current_state = DAY_ENDED
    /\ NoRevokedSnapshot
    /\ Len(actions) = Len(SessionLog)
    /\ Len(SessionLog) >= 2
    /\ SessionLog[1].action_type = START_DAY
    /\ SessionLog[Len(SessionLog)].action_type = END_DAY
    /\ \A i \in 1..(Len(SessionLog) - 1) :
          SessionLog[i].timestamp <= SessionLog[i + 1].timestamp

\* total_work_seconds + total_break_seconds of the day, in ticks.
WorkAndBreakTicks ==
    LET calc == get_current_calculations(St, now)
    IN (calc.total_work_seconds + calc.total_break_seconds) * TicksPerSecond

\* C37 as stated: on a completed day with no revokes, total_work_seconds +
\* total_break_seconds is the EndDay timestamp minus the StartDay timestamp.
C37_WorkAndBreakPartitionTheDay ==
    DayEndedEitherWay =>
        WorkAndBreakTicks
          = SessionLog[Len(SessionLog)].timestamp - SessionLog[1].timestamp

\* C37, amended: on a completed day with no revokes, every interval between
\* two consecutive actions is counted once, as work or as break, with the
\* whole seconds it has: total_work_seconds + total_break_seconds is the sum
\* of the whole seconds of these intervals, which is the EndDay timestamp
\* minus the StartDay timestamp less the fractions of a second dropped, one
\* for each interval.
C37_WorkAndBreakPartitionWholeSeconds ==
    DayEndedEitherWay =>
        /\ WorkAndBreakTicks
             = IntervalTicks(SessionLog, 1, LoggedActionTypes, TicksPerSecond)
        /\ WorkAndBreakTicks
             <= SessionLog[Len(SessionLog)].timestamp - SessionLog[1].timestamp
        /\ WorkAndBreakTicks
             > SessionLog[Len(SessionLog)].timestamp - SessionLog[1].timestamp
                 - (Len(SessionLog) - 1) * TicksPerSecond

\* C37 witness: a day ended from a break, StartDay, Stop, EndDay, with a break
\* of a minute or more and less counted than the day is long.
C37_Witness ==
    /\ DayEndedEitherWay
    /\ Len(SessionLog) = 3
    /\ SessionLog[2].action_type = STOP
    /\ get_current_calculations(St, now).total_break_seconds >= SecondsPerMinute
    /\ WorkAndBreakTicks < SessionLog[3].timestamp - SessionLog[1].timestamp

\* The break periods of st, each with whether it is open.
BreaksOpenOrClosed(st) ==
    {<<st.break_periods[i].id, st.break_periods[i].end_time = None>> :
        i \in 1..Len(st.break_periods)}

\* st has the lifecycle state, the break id, the break periods (open or
\* closed) and the session's start_time and end_time of the current state.
SameDayAs(st) ==
    /\ st.current_state = current_state
    /\ st.current_break_id = current_break_id
    /\ BreaksOpenOrClosed(st) = BreaksOpenOrClosed(St)
    /\ SessionRow(st).start_time = SessionRow(St).start_time
    /\ SessionRow(st).end_time = SessionRow(St).end_time

\* The transition of the given type, where it is legal, followed at once by
\* the revoke of the snapshot it recorded, leaves the day as it was.
DoThenUndoRestores(action_type) ==
    \A d \in Delta :
        LET done == Transition(St, action_type, d)
            undone == revoke_action(done.st, get_last_action(done.st.actions)[1].id, 0)
        IN done.ret => undone.ret /\ SameDayAs(undone.st)

\* C38: a legal transition followed at once by its revoke restores
\* current_state, current_break_id, the break periods with their open or
\* closed status and the session's start_time and end_time, for each of
\* StartDay, Stop, Continue and EndDay (from Working and from OnBreak).
C38_DoThenUndoIsIdentity == \A a \in Transitions : DoThenUndoRestores(a)

\* What does hold: in the states reached without a revoke StartDay, Stop and
\* Continue are undone, and so is the EndDay that follows the StartDay
\* directly.
DoThenUndoWithoutRevokes ==
    NoRevokedSnapshot =>
        /\ DoThenUndoRestores(START_DAY)
        /\ DoThenUndoRestores(STOP)
        /\ DoThenUndoRestores(CONTINUE)
        /\ Len(actions) = 1 => DoThenUndoRestores(END_DAY)

\* Total work and break seconds get_current_calculations returns in st at
\* the given clock.
WorkAndBreakTotals(st, clock) ==
    LET calc == get_current_calculations(st, clock)
    IN <<calc.total_work_seconds, calc.total_break_seconds>>

\* A clock value later than every call made in the comparison.
LaterClock == now + 2 * (SecondsPerMinute * TicksPerSecond + 1)

\* The transition of the given type, where it is legal, then the revoke of
\* the most recent snapshot that is not revoked, which is the one it
\* recorded: the totals at a fixed clock are those of the run without the
\* transition.
UndoneTransitionLeavesTotals(action_type) ==
    \A d \in Delta :
        LET done == Transition(St, action_type, d)
            undone == revoke_action(done.st, get_last_action(done.st.actions)[1].id, 0)
        IN done.ret /\ undone.ret =>
             WorkAndBreakTotals(undone.st, LaterClock) = WorkAndBreakTotals(St, LaterClock)

\* C39: after a legal sequence of transitions and a successful revoke of the
\* most recent action that is not revoked, the total work seconds and total
\* break seconds of get_current_calculations at a fixed clock value are
\* those of a run in which the revoked transition was never performed.
C39_RevokedTransitionLeavesNoTrace ==
    NoRevokedSnapshot => \A a \in Transitions : UndoneTransitionLeavesTotals(a)

\* What does hold: the totals are those of the run without the transition
\* for a revoked StartDay, a revoked Continue and a revoked EndDay that was
\* made from Working.
RevokedStartContinueOrEndLeavesNoTrace ==
    NoRevokedSnapshot =>
        /\ UndoneTransitionLeavesTotals(START_DAY)
        /\ UndoneTransitionLeavesTotals(CONTINUE)
        /\ current_state = WORKING => UndoneTransitionLeavesTotals(END_DAY)

\* With no store method raising, the try blocks are the operations.
FaultFreeBodiesAreTheOperations ==
    /\ reset_day_with_faults(St, {}) = Returned(reset_day(St).ret, reset_day(St).st)
    /\ \A d \in Delta :
        /\ start_day_with_faults(St, d, {}) = Returned(start_day(St, d).ret, start_day(St, d).st)
        /\ stop_work_with_faults(St, d, COFFEE, {}) = Returned(stop_work(St, d, COFFEE).ret, stop_work(St, d, COFFEE).st)
        /\ continue_work_with_faults(St, d, {}) = Returned(continue_work(St, d).ret, continue_work(St, d).st)
        /\ end_day_with_faults(St, d, {}) = Returned(end_day(St, d).ret, end_day(St, d).st)
        /\ \A id \in KnownIds : revoke_action_with_faults(St, id, 0, {}) = Returned(revoke_action(St, id, 0).ret, revoke_action(St, id, 0).st)

====
